---- MODULE Spec2Model ----
(***************************************************************************)
(* KPI processing system: temporal threshold resolver, conditional         *)
(* formatting engine and team-table row reconciler.                        *)
(*                                                                         *)
(* Encoding of Python values:                                              *)
(*   - strings are TLA+ strings; Chars gives their characters so that      *)
(*     str.strip() and str.lower() are computed character by character;    *)
(*   - None (and a blank cell) is the token NULL;                          *)
(*   - a date is the integer Date(y, m, d) (order preserving); a missing   *)
(*     EffectiveDate is NoDate; a falsy year is NoYear;                    *)
(*   - numeric thresholds and cell values are integers in thousandths;     *)
(*   - a resolver's return value None is the empty sequence NoRanges (the  *)
(*     code never returns an empty list).                                  *)
(***************************************************************************)
EXTENDS Integers, Sequences, FiniteSets, TLC

VARIABLES
    therapists,           \* config['therapists']
    competency_history,   \* config['competency_history']
    team_ave_thresholds,  \* config['team_ave_thresholds']
    thresholds,           \* config['thresholds'][team_type] : competency -> bundle
    ceased_thresholds,    \* config['ceased_thresholds']
    rating_thresholds,    \* config['rating_thresholds']
    cells,                \* worksheet cell values, <<row, col>> -> value
    styles,               \* worksheet static cell styles, <<row, col>> -> style
    tables,               \* ws.tables: table name -> declared range
    cf,                   \* ws.conditional_formatting, in the order the rules were added
    wb,                   \* the other sheets of a workbook: sheet name -> [cells, styles, tables]
    file_id_cache,        \* function_app._file_id_cache: file path -> file id
    cache_expiry,         \* function_app._cache_expiry, in hours of the clock
    utcnow,               \* datetime.utcnow(), in hours
    ret                   \* the last operation run, its inputs and its return value

vars == <<therapists, competency_history, team_ave_thresholds, thresholds,
          ceased_thresholds, rating_thresholds, cells, styles, tables, cf, wb,
          file_id_cache, cache_expiry, utcnow, ret>>

configVars == <<therapists, competency_history, team_ave_thresholds, thresholds,
                ceased_thresholds, rating_thresholds>>

sheetVars == <<cells, styles, tables>>

cacheVars == <<file_id_cache, cache_expiry, utcnow>>

NULL == "<None>"

\* _cache_expiry = None
NoExpiry == -1

\* the module as imported: "_file_id_cache = {}" and "_cache_expiry = None"
InitCache ==
    /\ file_id_cache = << >>
    /\ cache_expiry = NoExpiry
    /\ utcnow = 0

NoDate == 0

NoYear == 0

NoCol == 0

NoRanges == << >>

\* a missing or empty threshold bundle (None or {})
NoBundle == [none |-> TRUE]

\* a workbook without other sheets
NoSheets == << >>

Max(S) == CHOOSE x \in S : \A y \in S : y <= x

Min(S) == CHOOSE x \in S : \A y \in S : x <= y

\* Python truthiness of a string-or-None value.
Truthy(v) == v # NULL /\ v # ""

------------------------------------------------------------------------------
(* Strings *)

Chars(s) ==
    CASE s = "al"   -> <<"a", "l">>
      [] s = "Al"   -> <<"A", "l">>
      [] s = "Al "  -> <<"A", "l", " ">>
      [] s = "al "  -> <<"a", "l", " ">>
      [] s = "bo"   -> <<"b", "o">>
      [] s = "cy"   -> <<"c", "y">>
      [] s = "dy"   -> <<"d", "y">>
      [] s = "ed"   -> <<"e", "d">>
      [] s = "OT"   -> <<"O", "T">>
      [] s = "OT "  -> <<"O", "T", " ">>
      [] s = "ot"   -> <<"o", "t">>
      [] OTHER      -> <<s>>   \* any other token: one symbol, nothing to strip

LowerChar(c) ==
    CASE c = "A" -> "a"
      [] c = "O" -> "o"
      [] c = "T" -> "t"
      [] OTHER   -> c

\* str.lower()
LowerSeq(cs) == [i \in 1..Len(cs) |-> LowerChar(cs[i])]

RECURSIVE LStrip(_)
LStrip(cs) == IF cs # << >> /\ Head(cs) = " " THEN LStrip(Tail(cs)) ELSE cs

RECURSIVE RStrip(_)
RStrip(cs) ==
    IF cs # << >> /\ cs[Len(cs)] = " " THEN RStrip(SubSeq(cs, 1, Len(cs) - 1)) ELSE cs

\* str.strip()
StripSeq(cs) == RStrip(LStrip(cs))

\* s.strip().lower(), as a character sequence
StripLower(s) == LowerSeq(StripSeq(Chars(s)))

\* s.strip(), as a character sequence
Strip(s) == StripSeq(Chars(s))

------------------------------------------------------------------------------
(* Dates and months *)

\* datetime.date(y, m, d), order preserving
Date(y, m, d) == (y * 12 + (m - 1)) * 31 + d

MonthNames == <<"Jan", "Feb", "Mar", "Apr", "May", "June",
                "July", "Aug", "Sept", "Oct", "Nov", "Dec">>

DATA_COLUMNS == {MonthNames[i] : i \in 1..12} \cup {"Average"}

\* MONTH_TO_NUM.get(name): the month number, 0 (None) for any other name
MONTH_TO_NUM(name) ==
    IF \E i \in 1..12 : MonthNames[i] = name
    THEN CHOOSE i \in 1..12 : MonthNames[i] = name
    ELSE 0

\* COL_TO_MONTH.get(col) of the individual sheet: columns 3..14 are Jan..Dec
COL_TO_MONTH(col) == IF col \in 3..14 THEN MonthNames[col - 2] ELSE NULL

------------------------------------------------------------------------------
(* Temporal threshold resolver *)

\* list.sort(key=EffectiveDate): stable insertion of r behind every record
\* whose date is not later
RECURSIVE InsertByDate(_, _)
InsertByDate(r, sorted) ==
    IF sorted = << >> THEN <<r>>
    ELSE IF Head(sorted).EffectiveDate <= r.EffectiveDate
         THEN <<Head(sorted)>> \o InsertByDate(r, Tail(sorted))
         ELSE <<r>> \o sorted

RECURSIVE SortByDate(_)
SortByDate(recs) ==
    IF recs = << >> THEN << >>
    ELSE InsertByDate(recs[Len(recs)], SortByDate(SubSeq(recs, 1, Len(recs) - 1)))

\* the same with "eff_date < target_date"
ApplicableIndex_Strict(sorted, target) ==
    LET idx == {i \in 1..Len(sorted) : sorted[i].EffectiveDate < target}
    IN  IF idx = {} THEN 0 ELSE Max(idx)

\* The inner loop "for record in records: if eff_date <= target: applicable =
\* ..." : the last record, in sorted order, whose date is not after target.
ApplicableIndex(sorted, target) ==
    LET idx == {i \in 1..Len(sorted) : sorted[i].EffectiveDate <= target}
    IN  IF idx = {} THEN 0 ELSE Max(idx)

\* The grouping loop shared by the three resolvers.  items is the calendar-
\* ordered list of [key, regime, col] of the months that have a regime; the
\* result is the list of <<regime, start_col, end_col>>.
RECURSIVE GroupLoop(_, _, _, _, _, _)
GroupLoop(items, ranges, started, cur, start_col, end_col) ==
    IF items = << >>
    THEN IF started THEN Append(ranges, <<cur.regime, start_col, end_col>>) ELSE ranges
    ELSE LET it == Head(items) IN
         IF started /\ it.key = cur.key
         THEN GroupLoop(Tail(items), ranges, TRUE, cur, start_col, it.col)
         ELSE GroupLoop(Tail(items),
                        IF started THEN Append(ranges, <<cur.regime, start_col, end_col>>)
                                   ELSE ranges,
                        TRUE, it, it.col, it.col)

GroupRanges(items) == GroupLoop(items, << >>, FALSE, [key |-> NULL, regime |-> NULL], NoCol, NoCol)

\* the same extending the first range instead of the last
ExtendLast_First(ranges, avg_col) ==
    IF ranges # << >> /\ avg_col # NoCol
    THEN [ranges EXCEPT ![1] = <<ranges[1][1], ranges[1][2], avg_col>>]
    ELSE ranges

\* "ranges[-1] = (last, last_start, avg_col)" when ranges and avg_col
ExtendLast(ranges, avg_col) ==
    IF ranges # << >> /\ avg_col # NoCol
    THEN [ranges EXCEPT ![Len(ranges)] = <<ranges[Len(ranges)][1], ranges[Len(ranges)][2], avg_col>>]
    ELSE ranges

\* the same without the single-range collapse
Collapse_Never(ranges) == ranges

\* "return ranges if len(ranges) > 1 else None"
Collapse(ranges) == IF Len(ranges) > 1 THEN ranges ELSE NoRanges

\* sorted(month_cols.items(), key=MONTH_TO_NUM): the month names of data_cols
\* (Average excluded) in calendar order
sorted_months(data_cols) ==
    SelectSeq(MonthNames, LAMBDA m : m \in DOMAIN data_cols)

AvgCol(data_cols) == IF "Average" \in DOMAIN data_cols THEN data_cols["Average"] ELSE NoCol

\* the same without the comparison of names
TherapistRecords_AnyName(history, therapist_name) ==
    SelectSeq(history, LAMBDA r : r.EffectiveDate # NoDate)

\* records of competency_history kept by the resolvers' filter
TherapistRecords(history, therapist_name) ==
    SelectSeq(history, LAMBDA r : StripLower(r.Name) = StripLower(therapist_name)
                                  /\ r.EffectiveDate # NoDate)

\* team_leader_formatting.get_competency_ranges_for_therapist
get_competency_ranges_for_therapist(therapist_name, yr, data_cols, history) ==
    LET recs == TherapistRecords(history, therapist_name) IN
    IF recs = << >> \/ yr = NoYear THEN NoRanges
    ELSE
      LET sorted == SortByDate(recs)
          months == sorted_months(data_cols)
          comp(m) == LET i == ApplicableIndex(sorted, Date(yr, MONTH_TO_NUM(m), 15))
                     IN  IF i = 0 THEN NULL ELSE sorted[i].Competency
          kept   == SelectSeq(months, LAMBDA m : Truthy(comp(m)))
          items  == [i \in 1..Len(kept) |->
                        [key |-> comp(kept[i]), regime |-> comp(kept[i]), col |-> data_cols[kept[i]]]]
          ranges == ExtendLast(GroupRanges(items), AvgCol(data_cols))
      IN  Collapse(ranges)

\* individual_sheet_v2.get_competency_ranges_for_therapist (fixed columns 3..14,
\* Average in column 15)
get_competency_ranges_v2(therapist_name, yr, history) ==
    LET recs == TherapistRecords(history, therapist_name) IN
    IF recs = << >> \/ yr = NoYear THEN NoRanges
    ELSE
      LET sorted == SortByDate(recs)
          colseq == [i \in 1..12 |-> i + 2]
          comp(c) == LET i == ApplicableIndex(sorted, Date(yr, MONTH_TO_NUM(COL_TO_MONTH(c)), 15))
                     IN  IF i = 0 THEN NULL ELSE sorted[i].Competency
          kept   == SelectSeq(colseq, LAMBDA c : Truthy(comp(c)))
          items  == [i \in 1..Len(kept) |->
                        [key |-> comp(kept[i]), regime |-> comp(kept[i]), col |-> kept[i]]]
          ranges == ExtendLast(GroupRanges(items), 15)
      IN  Collapse(ranges)

\* records of team_ave_thresholds kept by the team resolver's filter
TeamRecords(history, team_name) ==
    SelectSeq(history, LAMBDA r : Strip(r.Team) = Strip(team_name)
                                  /\ r.EffectiveDate # NoDate)

\* the bundle built from a team record
RecordBundle(r) ==
    [red_below  |-> r.Billings_Red_Below,  green_min  |-> r.Billings_Green_Min,
     green_max  |-> r.Billings_Green_Max,  blue_above |-> r.Billings_Blue_Above]

\* the grouping key made of the whole bundle
threshold_key_Full(b) == <<b.red_below, b.green_min, b.green_max, b.blue_above>>

\* the grouping key of a bundle
threshold_key(b) == <<b.green_min, b.blue_above>>

\* team_leader_formatting.get_team_ave_threshold_ranges
get_team_ave_threshold_ranges(team_name, yr, data_cols, history) ==
    LET recs == TeamRecords(history, team_name) IN
    IF recs = << >> \/ yr = NoYear THEN NoRanges
    ELSE
      LET sorted == SortByDate(recs)
          months == sorted_months(data_cols)
          idx(m) == ApplicableIndex(sorted, Date(yr, MONTH_TO_NUM(m), 15))
          kept   == SelectSeq(months, LAMBDA m : idx(m) # 0)
          items  == [i \in 1..Len(kept) |->
                        [key    |-> threshold_key(RecordBundle(sorted[idx(kept[i])])),
                         regime |-> RecordBundle(sorted[idx(kept[i])]),
                         col    |-> data_cols[kept[i]]]]
          ranges == ExtendLast(GroupRanges(items), AvgCol(data_cols))
      IN  Collapse(ranges)

------------------------------------------------------------------------------
(* Worksheet access *)

\* ws.cell(row, column).value
Cell(r, c) == IF <<r, c>> \in DOMAIN cells THEN cells[<<r, c>>] ELSE NULL

\* team_leader_formatting.get_table_info: data_cols maps each header found in
\* DATA_COLUMNS to its column (a repeated header keeps its last column)
data_cols_of(t) ==
    LET hdr == {Cell(t.min_row, c) : c \in t.min_col..t.max_col} \cap DATA_COLUMNS
    IN  [h \in hdr |-> Max({c \in t.min_col..t.max_col : Cell(t.min_row, c) = h})]

------------------------------------------------------------------------------
(* Conditional formatting engine *)

\* One conditional-formatting rule on the cells <<row, c1, c2>>.  op "blank" is
\* the FormulaRule LEN(TRIM(cell))=0, the others are CellIsRule operators.
Rule(rng, op, f1, f2, fill) == [rng |-> rng, op |-> op, f1 |-> f1, f2 |-> f2, fill |-> fill]

\* the billing rules with the green rule added before the blue one
apply_billing_rules_GreenFirst(rng, b) ==
    IF b = NoBundle THEN << >>
    ELSE << Rule(rng, "blank", 0, 0, "white"),
            Rule(rng, "greaterThanOrEqual", b.green_min, 0, "green"),
            Rule(rng, "greaterThan", b.blue_above, 0, "blue"),
            Rule(rng, "lessThan", b.green_min, 0, "red") >>

\* the billing rules with the blue rule added last
apply_billing_rules_BlueLast(rng, b) ==
    IF b = NoBundle THEN << >>
    ELSE << Rule(rng, "blank", 0, 0, "white"),
            Rule(rng, "greaterThanOrEqual", b.green_min, 0, "green"),
            Rule(rng, "lessThan", b.green_min, 0, "red"),
            Rule(rng, "greaterThan", b.blue_above, 0, "blue") >>

\* team_leader_formatting.apply_billing_rules: nothing without thresholds,
\* else four rules in this order
apply_billing_rules(rng, b) ==
    IF b = NoBundle THEN << >>
    ELSE << Rule(rng, "blank", 0, 0, "white"),
            Rule(rng, "greaterThan", b.blue_above, 0, "blue"),
            Rule(rng, "greaterThanOrEqual", b.green_min, 0, "green"),
            Rule(rng, "lessThan", b.green_min, 0, "red") >>

\* individual_sheet_v2.apply_billing_formatting_v2 on C{kpi_row}:O{kpi_row}
apply_billing_formatting_v2(b, kpi_row) ==
    IF b = NoBundle THEN << >>
    ELSE << Rule(<<kpi_row, 3, 15>>, "blank", 0, 0, "white"),
            Rule(<<kpi_row, 3, 15>>, "greaterThan", b.blue_above, 0, "blue"),
            Rule(<<kpi_row, 3, 15>>, "greaterThanOrEqual", b.green_min, 0, "green"),
            Rule(<<kpi_row, 3, 15>>, "lessThan", b.green_min, 0, "red") >>

DEFAULT_CEASED_THRESHOLDS ==
    [blue_below |-> 25, green_min |-> 25, green_max |-> 40, red_above |-> 40]

\* the ceased rules with the green rule added before the blue one
apply_ceased_rules_GreenFirst(rng, c) ==
    LET t == IF c = NoBundle THEN DEFAULT_CEASED_THRESHOLDS ELSE c IN
    << Rule(rng, "blank", 0, 0, "white"),
       Rule(rng, "lessThan", t.red_above, 0, "green"),
       Rule(rng, "lessThan", t.blue_below, 0, "blue"),
       Rule(rng, "greaterThanOrEqual", t.red_above, 0, "red") >>

\* team_leader_formatting.apply_ceased_rules (an empty bundle is replaced by
\* the defaults)
apply_ceased_rules(rng, c) ==
    LET t == IF c = NoBundle THEN DEFAULT_CEASED_THRESHOLDS ELSE c IN
    << Rule(rng, "blank", 0, 0, "white"),
       Rule(rng, "lessThan", t.blue_below, 0, "blue"),
       Rule(rng, "lessThan", t.red_above, 0, "green"),
       Rule(rng, "greaterThanOrEqual", t.red_above, 0, "red") >>

\* individual_sheet_v2.apply_ceased_services_formatting_v2 on
\* C{kpi_row}:O{kpi_row} (missing keys default to 0.025 and 0.04)
apply_ceased_services_formatting_v2(c, kpi_row) ==
    LET blue_below == IF c = NoBundle THEN 25 ELSE c.blue_below
        red_above  == IF c = NoBundle THEN 40 ELSE c.red_above
    IN
    << Rule(<<kpi_row, 3, 15>>, "blank", 0, 0, "white"),
       Rule(<<kpi_row, 3, 15>>, "lessThan", blue_below, 0, "blue"),
       Rule(<<kpi_row, 3, 15>>, "lessThan", red_above, 0, "green"),
       Rule(<<kpi_row, 3, 15>>, "greaterThanOrEqual", red_above, 0, "red") >>

DEFAULT_RATING_THRESHOLDS ==
    << [rating |-> 1, min |-> 1000, max |-> 1500],
       [rating |-> 2, min |-> 1500, max |-> 2500],
       [rating |-> 3, min |-> 2500, max |-> 3500],
       [rating |-> 4, min |-> 3500, max |-> 4500],
       [rating |-> 5, min |-> 4500, max |-> 5000] >>

\* the same reading 'max'
RatingMin_Max(ts, rating, dflt) ==
    LET idx == {i \in 1..Len(ts) : ts[i].rating = rating}
    IN  IF idx = {} THEN dflt ELSE ts[Max(idx)].max

\* threshold_map.get(rating, {}).get('min', dflt): the dict keeps the last
\* entry of a rating
RatingMin(ts, rating, dflt) ==
    LET idx == {i \in 1..Len(ts) : ts[i].rating = rating}
    IN  IF idx = {} THEN dflt ELSE ts[Max(idx)].min

\* team_leader_formatting.apply_rating_rules
apply_rating_rules(rng, rts) ==
    LET ts == IF rts = << >> THEN DEFAULT_RATING_THRESHOLDS ELSE rts IN
    << Rule(rng, "blank", 0, 0, "white"),
       Rule(rng, "greaterThanOrEqual", RatingMin(ts, 5, 4500), 0, "blue"),
       Rule(rng, "greaterThanOrEqual", RatingMin(ts, 4, 3500), 0, "green"),
       Rule(rng, "greaterThanOrEqual", RatingMin(ts, 3, 2500), 0, "yellow"),
       Rule(rng, "greaterThanOrEqual", RatingMin(ts, 2, 1500), 0, "amber"),
       Rule(rng, "lessThan", RatingMin(ts, 2, 1500), 0, "red") >>

\* color_map.get(rating, white_fill) of apply_rating_scale_formatting_v2
color_map(rating) ==
    CASE rating = 1 -> "red"
      [] rating = 2 -> "amber"
      [] rating = 3 -> "yellow"
      [] rating = 4 -> "green"
      [] rating = 5 -> "blue"
      [] OTHER      -> "white"

\* the rule of apply_rating_scale_formatting_v2 for one threshold
RatingRuleV2(rng, threshold) ==
    IF threshold.rating = 5
    THEN Rule(rng, "greaterThanOrEqual", threshold.min, 0, color_map(5))
    ELSE IF threshold.rating = 1
    THEN Rule(rng, "lessThan", threshold.max, 0, color_map(1))
    ELSE Rule(rng, "between", threshold.min, threshold.max, color_map(threshold.rating))

\* individual_sheet_v2.apply_rating_scale_formatting_v2: per row the white
\* rule, then one rule per threshold from the last of the list to the first
RECURSIVE apply_rating_scale_formatting_v2(_, _)
apply_rating_scale_formatting_v2(kpi_rows, rts) ==
    IF kpi_rows = << >> THEN << >>
    ELSE << Rule(<<Head(kpi_rows), 3, 15>>, "blank", 0, 0, "white") >>
         \o [i \in 1..Len(rts) |-> RatingRuleV2(<<Head(kpi_rows), 3, 15>>, rts[Len(rts) + 1 - i])]
         \o apply_rating_scale_formatting_v2(Tail(kpi_rows), rts)

\* function_app.apply_rating_scale_formatting: per cell range the white rule,
\* then one rule per threshold from the last of the list to the first
RECURSIVE apply_rating_scale_formatting(_, _)
apply_rating_scale_formatting(cell_ranges, rts) ==
    IF cell_ranges = << >> THEN << >>
    ELSE << Rule(Head(cell_ranges), "blank", 0, 0, "white") >>
         \o [i \in 1..Len(rts) |-> RatingRuleV2(Head(cell_ranges), rts[Len(rts) + 1 - i])]
         \o apply_rating_scale_formatting(Tail(cell_ranges), rts)

\* A cell as the spreadsheet's rule engine sees it: blank, or a number.  A
\* blank cell compares as the number 0 in a CellIsRule.
BlankCell == [blank |-> TRUE, v |-> 0]

NumCell(x) == [blank |-> FALSE, v |-> x]

Matches(rule, cell) ==
    CASE rule.op = "blank"              -> cell.blank
      [] rule.op = "greaterThan"        -> cell.v > rule.f1
      [] rule.op = "greaterThanOrEqual" -> cell.v >= rule.f1
      [] rule.op = "lessThan"           -> cell.v < rule.f1
      [] rule.op = "between"            -> cell.v >= rule.f1 /\ cell.v <= rule.f2
      [] OTHER                          -> FALSE

Covers(rule, row, col) == rule.rng[1] = row /\ rule.rng[2] <= col /\ col <= rule.rng[3]

\* The fill shown when the earliest-added matching rule takes precedence
\* (rule priority is the order of addition).
FirstMatchFill(rules, cell) ==
    LET idx == {i \in 1..Len(rules) : Matches(rules[i], cell)}
    IN  IF idx = {} THEN "none" ELSE rules[Min(idx)].fill

\* The fill shown when every matching rule is applied and the last-added one
\* wins.
LastMatchFill(rules, cell) ==
    LET idx == {i \in 1..Len(rules) : Matches(rules[i], cell)}
    IN  IF idx = {} THEN "none" ELSE rules[Max(idx)].fill

\* the rules of the sheet that cover one cell, in order of addition
RulesAt(row, col) == SelectSeq(cf, LAMBDA r : Covers(r, row, col))

------------------------------------------------------------------------------
(* Team Leader sheet formatting *)

\* SHEET_CONFIG['KPI Dashboard OT']
OT_SHEET_CONFIG ==
    [team_name |-> "OT", team_type |-> "OT",
     tables |-> << [name |-> "Billings_OT",    kpi_type |-> "billing"],
                   [name |-> "Compliance_OT",  kpi_type |-> "rating"],
                   [name |-> "ReferrerEng_OT", kpi_type |-> "rating"],
                   [name |-> "Capacity_OT",    kpi_type |-> "rating"],
                   [name |-> "Attitude_OT",    kpi_type |-> "rating"],
                   [name |-> "Average_OT",     kpi_type |-> "average"] >>]

\* build_competency_map: the entries of the team's therapists that have a name
\* and a competency; competency_map.get(label) is the last entry of that name
CompetencyMapEntries(team_name) ==
    {i \in 1..Len(therapists) :
        /\ therapists[i].Team = team_name
        /\ Truthy(therapists[i].Name)
        /\ Truthy(therapists[i].Competency)}

InCompetencyMap(team_name, label) ==
    \E i \in CompetencyMapEntries(team_name) : Strip(therapists[i].Name) = Strip(label)

CompetencyMapGet(team_name, label) ==
    therapists[Max({i \in CompetencyMapEntries(team_name) :
                       Strip(therapists[i].Name) = Strip(label)})].Competency

\* config['thresholds'][team_type].get(competency)
ThresholdsGet(competency) ==
    IF competency \in DOMAIN thresholds THEN thresholds[competency] ELSE NoBundle

\* detect_row_kpi_type, on the row labels of the model
detect_row_kpi_type(row_label) ==
    CASE row_label \in {"Billings", "Billings KPI"} -> "billing"
      [] row_label \in {"Ceased", "Ceased Services"} -> "ceased"
      [] OTHER -> "rating"

NoRows == [rules |-> << >>, n |-> 0]

\* the loop over comp_ranges of format_regular_table
RECURSIVE CompRangeRules(_, _)
CompRangeRules(ranges, row_idx) ==
    IF ranges = << >> THEN << >>
    ELSE apply_billing_rules(<<row_idx, Head(ranges)[2], Head(ranges)[3]>>,
                             ThresholdsGet(Head(ranges)[1]))
         \o CompRangeRules(Tail(ranges), row_idx)

\* the loop over threshold_ranges of format_average_table
RECURSIVE TeamRangeRules(_, _)
TeamRangeRules(ranges, row_idx) ==
    IF ranges = << >> THEN << >>
    ELSE apply_billing_rules(<<row_idx, Head(ranges)[2], Head(ranges)[3]>>, Head(ranges)[1])
         \o TeamRangeRules(Tail(ranges), row_idx)

\* one iteration of the row loop of format_regular_table
RegularRow(t, dc, sc, kpi_type, row_idx, yr) ==
    LET label     == Cell(row_idx, t.min_col)
        first_col == Min({dc[h] : h \in DOMAIN dc})
        last_col  == Max({dc[h] : h \in DOMAIN dc})
        row_range == <<row_idx, first_col, last_col>>
    IN
    IF ~Truthy(label) THEN NoRows
    ELSE IF ~InCompetencyMap(sc.team_name, label) THEN NoRows
    ELSE CASE kpi_type = "billing" ->
                LET comp_ranges == get_competency_ranges_for_therapist(label, yr, dc, competency_history)
                    b == ThresholdsGet(CompetencyMapGet(sc.team_name, label))
                IN  IF comp_ranges # NoRanges
                    THEN [rules |-> CompRangeRules(comp_ranges, row_idx), n |-> 1]
                    ELSE IF b # NoBundle
                         THEN [rules |-> apply_billing_rules(row_range, b), n |-> 1]
                         ELSE NoRows
           [] kpi_type = "ceased" ->
                [rules |-> apply_ceased_rules(row_range, ceased_thresholds), n |-> 1]
           [] kpi_type = "rating" ->
                [rules |-> apply_rating_rules(row_range, rating_thresholds), n |-> 1]
           [] OTHER -> NoRows

\* one iteration of the row loop of format_average_table
AverageRow(t, dc, sc, row_idx, yr) ==
    LET label     == Cell(row_idx, t.min_col)
        first_col == Min({dc[h] : h \in DOMAIN dc})
        last_col  == Max({dc[h] : h \in DOMAIN dc})
        row_range == <<row_idx, first_col, last_col>>
        kind      == detect_row_kpi_type(label)
    IN
    IF ~Truthy(label) THEN NoRows
    ELSE CASE kind = "billing" ->
                LET threshold_ranges ==
                        get_team_ave_threshold_ranges(sc.team_name, yr, dc, team_ave_thresholds)
                    b == IF ThresholdsGet("Team Average") # NoBundle
                         THEN ThresholdsGet("Team Average") ELSE ThresholdsGet("CA")
                IN  IF threshold_ranges # NoRanges
                    THEN [rules |-> TeamRangeRules(threshold_ranges, row_idx), n |-> 1]
                    ELSE IF b # NoBundle
                         THEN [rules |-> apply_billing_rules(row_range, b), n |-> 1]
                         ELSE NoRows
           [] kind = "ceased" ->
                [rules |-> apply_ceased_rules(row_range, ceased_thresholds), n |-> 1]
           [] OTHER ->
                [rules |-> apply_rating_rules(row_range, rating_thresholds), n |-> 1]

AddRows(acc, one) == [rules |-> acc.rules \o one.rules, n |-> acc.n + one.n]

\* the row loop of format_regular_table / format_average_table over the data
\* rows row_idx..t.max_row; dc is table_info['data_cols']
RECURSIVE FormatRows(_, _, _, _, _, _, _)
FormatRows(t, dc, sc, kpi_type, row_idx, yr, acc) ==
    IF row_idx > t.max_row THEN acc
    ELSE FormatRows(t, dc, sc, kpi_type, row_idx + 1, yr,
                    AddRows(acc, IF kpi_type = "average" THEN AverageRow(t, dc, sc, row_idx, yr)
                                 ELSE RegularRow(t, dc, sc, kpi_type, row_idx, yr)))

\* format_kpi_table: format_average_table or format_regular_table on one table
\* (a missing table, or one without data columns, formats nothing)
format_kpi_table(sc, tc, yr) ==
    IF tc.name \notin DOMAIN tables THEN NoRows
    ELSE CHOOSE res \in
            {IF DOMAIN dc = {} THEN NoRows
             ELSE FormatRows(tables[tc.name], dc, sc, tc.kpi_type,
                             tables[tc.name].min_row + 1, yr, NoRows) :
                dc \in {data_cols_of(tables[tc.name])}} : TRUE

AddTable(acc, one) ==
    [rules            |-> acc.rules \o one.rules,
     tables_formatted |-> acc.tables_formatted + (IF one.n > 0 THEN 1 ELSE 0),
     rows_formatted   |-> acc.rows_formatted + one.n]

\* the table loop of format_team_leader_sheet
RECURSIVE FormatTables(_, _, _, _)
FormatTables(sc, tcs, yr, acc) ==
    IF tcs = << >> THEN acc
    ELSE FormatTables(sc, Tail(tcs), yr, AddTable(acc, format_kpi_table(sc, Head(tcs), yr)))

\* a variant of the pass that adds its rules to the ones the sheet has
FormatTeamLeaderSheet_NoReset(yr) ==
    \E r \in {FormatTables(OT_SHEET_CONFIG, OT_SHEET_CONFIG.tables, yr,
                             [rules |-> cf, tables_formatted |-> 0, rows_formatted |-> 0])} :
    /\ cf' = r.rules
    /\ ret' = [op |-> "format_team_leader_sheet", year |-> yr, old_count |-> Len(cf),
               tables_formatted |-> r.tables_formatted, rows_formatted |-> r.rows_formatted]
    /\ UNCHANGED <<cacheVars, configVars, sheetVars, wb>>

\* format_team_leader_sheet(ws, 'KPI Dashboard OT', config, year): the rule list
\* is reset, then every table of the sheet is formatted; old_count is the
\* number of rules clear_all_conditional_formatting found
FormatTeamLeaderSheet(yr) ==
    \E r \in {FormatTables(OT_SHEET_CONFIG, OT_SHEET_CONFIG.tables, yr,
                             [rules |-> << >>, tables_formatted |-> 0, rows_formatted |-> 0])} :
    /\ cf' = r.rules
    /\ ret' = [op |-> "format_team_leader_sheet", year |-> yr, old_count |-> Len(cf),
               tables_formatted |-> r.tables_formatted, rows_formatted |-> r.rows_formatted]
    /\ UNCHANGED <<cacheVars, configVars, sheetVars, wb>>

------------------------------------------------------------------------------
(* Resolver operations and their inputs *)

\* the largest number of history rows of the config workbook
MaxRecs == 3

\* the year of the workbook's file name
WorkbookYear == 2026

Bundle(rb, gmin, gmax, ba) ==
    [red_below |-> rb, green_min |-> gmin, green_max |-> gmax, blue_above |-> ba]

SeqsUpTo(S, n) == UNION {[1..k -> S] : k \in 0..n}

\* EffectiveDate values of history rows: before the year, on the 15th of a
\* month, and the day after
HistoryDates == {Date(2025, 12, 20), Date(2026, 4, 15), Date(2026, 4, 16)}

\* rows of the competency history sheet (one of them without a competency, one
\* without a date)
CompetencyRows ==
    [Name : {"Al "}, EffectiveDate : HistoryDates, Competency : {"CA", "Senior"}]
    \cup {[Name |-> "Al ", EffectiveDate |-> Date(2026, 4, 15), Competency |-> NULL],
          [Name |-> "Al ", EffectiveDate |-> NoDate, Competency |-> "CA"]}

TeamBundles == {Bundle(3000, 4000, 6000, 6000), Bundle(3000, 4300, 6000, 6000)}

TeamRow(d, b) ==
    [Team |-> "OT ", EffectiveDate |-> d,
     Billings_Red_Below |-> b.red_below, Billings_Green_Min |-> b.green_min,
     Billings_Green_Max |-> b.green_max, Billings_Blue_Above |-> b.blue_above]

\* rows of the team average threshold sheet (one of them differing from
\* another in red_below only, one without a date)
TeamRows ==
    {TeamRow(d, b) : d \in HistoryDates, b \in TeamBundles}
    \cup {TeamRow(Date(2026, 4, 16), Bundle(3500, 4000, 6000, 6000)),
          TeamRow(NoDate, Bundle(3000, 4300, 6000, 6000))}

\* table headers: Name, Jan..Dec, Average in columns 2..15
StdCols == [h \in DATA_COLUMNS |-> IF h = "Average" THEN 15 ELSE MONTH_TO_NUM(h) + 2]

\* the same without an Average column
NoAvgCols == [h \in DATA_COLUMNS \ {"Average"} |-> MONTH_TO_NUM(h) + 2]

\* a header whose Jan and Feb columns are exchanged
SwappedCols == [h \in DATA_COLUMNS |->
                   CASE h = "Jan" -> 4 [] h = "Feb" -> 3 [] OTHER -> StdCols[h]]

TherapistInputs == {<<"al", WorkbookYear, StdCols>>, <<"al", WorkbookYear, NoAvgCols>>,
                    <<"al", WorkbookYear, SwappedCols>>, <<"al", NoYear, StdCols>>,
                    <<"bo", WorkbookYear, StdCols>>}

\* the last input names the team in lower case
TeamInputs == {<<"OT", WorkbookYear, StdCols>>, <<"OT", WorkbookYear, NoAvgCols>>,
               <<"OT", WorkbookYear, SwappedCols>>, <<"OT", NoYear, StdCols>>,
               <<"Physio_North", WorkbookYear, StdCols>>, <<"ot", WorkbookYear, StdCols>>}

HeaderCells(row) ==
    [a \in {<<row, c>> : c \in 2..15} |->
        IF a[2] = 2 THEN "Name" ELSE IF a[2] = 15 THEN "Average" ELSE MonthNames[a[2] - 2]]

Ref(c1, r1, c2, r2) == [min_col |-> c1, min_row |-> r1, max_col |-> c2, max_row |-> r2]

NoStyles == [a \in {} |-> NULL]

\* the OT sheet: Billings_OT with the rows of al and bo, Average_OT with one
\* billing row
InitOTSheet ==
    /\ cells = HeaderCells(1) @@ (<<2, 2>> :> "al") @@ (<<3, 2>> :> "bo")
               @@ HeaderCells(5) @@ (<<6, 2>> :> "Billings")
    /\ styles = NoStyles
    /\ tables = ("Billings_OT" :> Ref(2, 1, 15, 3)) @@ ("Average_OT" :> Ref(2, 5, 15, 6))
    /\ cf = << >>
    /\ wb = NoSheets

\* the values load_config substitutes when the sheet has no ceased thresholds
LoadedCeasedDefaults == [blue_below |-> 25, green_min |-> 25, green_max |-> 40, red_above |-> 40]

\* the values load_config substitutes when the sheet has no rating thresholds
LoadedRatingDefaults ==
    << [rating |-> 1, min |-> 1000, max |-> 1499],
       [rating |-> 2, min |-> 1500, max |-> 2499],
       [rating |-> 3, min |-> 2500, max |-> 3499],
       [rating |-> 4, min |-> 3500, max |-> 4499],
       [rating |-> 5, min |-> 4500, max |-> 5000] >>

Therapist(name, team, comp, active, leader) ==
    [Name |-> name, Team |-> team, Competency |-> comp, IsActive |-> active,
     IsTeamLeader |-> leader, FTE |-> IF leader THEN "0.6" ELSE "1"]

InitStaticConfig ==
    /\ therapists = << Therapist("al", "OT", "Senior", TRUE, FALSE),
                       Therapist("bo", "OT", "Grad", TRUE, FALSE) >>
    /\ thresholds = [c \in {"Grad", "CA", "Senior"} |->
                        CASE c = "Grad"   -> Bundle(2500, 3000, 4500, 4500)
                          [] c = "CA"     -> Bundle(3500, 4000, 6000, 6000)
                          [] c = "Senior" -> Bundle(4500, 5000, 7000, 7000)]
    /\ ceased_thresholds = LoadedCeasedDefaults
    /\ rating_thresholds = LoadedRatingDefaults

\* A loaded config holding up to MaxRecs history rows, on one of the two
\* history sheets; each loaded config serves one call.
InitResolve ==
    /\ InitCache
    /\ InitStaticConfig
    /\ InitOTSheet
    /\ \/ /\ competency_history \in SeqsUpTo(CompetencyRows, MaxRecs)
          /\ team_ave_thresholds = << >>
       \/ /\ competency_history = << >>
          /\ team_ave_thresholds \in SeqsUpTo(TeamRows, MaxRecs)
    /\ ret = [op |-> "none"]

\* a call of team_leader_formatting.get_competency_ranges_for_therapist
CallCompetencyRanges ==
    \E inp \in TherapistInputs :
        /\ ret.op = "none"
        /\ ret' = [op |-> "get_competency_ranges_for_therapist", subject |-> inp[1],
                   year |-> inp[2], data_cols |-> inp[3],
                   ranges |-> get_competency_ranges_for_therapist(inp[1], inp[2], inp[3],
                                                                  competency_history)]
        /\ UNCHANGED <<cacheVars, configVars, sheetVars, cf, wb>>

\* a call of individual_sheet_v2.get_competency_ranges_for_therapist
CallCompetencyRangesV2 ==
    \E inp \in TherapistInputs :
        /\ ret.op = "none"
        /\ inp[3] = StdCols
        /\ ret' = [op |-> "get_competency_ranges_v2", subject |-> inp[1],
                   year |-> inp[2], data_cols |-> inp[3],
                   ranges |-> get_competency_ranges_v2(inp[1], inp[2], competency_history)]
        /\ UNCHANGED <<cacheVars, configVars, sheetVars, cf, wb>>

\* a call of team_leader_formatting.get_team_ave_threshold_ranges
CallTeamAveThresholdRanges ==
    \E inp \in TeamInputs :
        /\ ret.op = "none"
        /\ ret' = [op |-> "get_team_ave_threshold_ranges", subject |-> inp[1],
                   year |-> inp[2], data_cols |-> inp[3],
                   ranges |-> get_team_ave_threshold_ranges(inp[1], inp[2], inp[3],
                                                            team_ave_thresholds)]
        /\ UNCHANGED <<cacheVars, configVars, sheetVars, cf, wb>>

\* one formatting pass over the freshly loaded workbook
FormatSheet ==
    /\ ret.op = "none"
    /\ \E yr \in {WorkbookYear, NoYear} : FormatTeamLeaderSheet(yr)

NextResolve ==
    \/ CallCompetencyRanges
    \/ CallCompetencyRangesV2
    \/ CallTeamAveThresholdRanges
    \/ FormatSheet

SpecResolve == InitResolve /\ [][NextResolve]_vars

------------------------------------------------------------------------------
(* Properties of the resolvers (SpecResolve) *)

TherapistResolverOps == {"get_competency_ranges_for_therapist", "get_competency_ranges_v2"}

ResolverOps == TherapistResolverOps \cup {"get_team_ave_threshold_ranges"}

\* subject names are matched without regard to case and surrounding blanks
NameMatches(a, b) == StripLower(a) = StripLower(b)

\* the history rows of the last call's subject that carry a date
SubjectRows ==
    IF ret.op \in TherapistResolverOps
    THEN {i \in 1..Len(competency_history) :
            /\ NameMatches(competency_history[i].Name, ret.subject)
            /\ competency_history[i].EffectiveDate # NoDate}
    ELSE {i \in 1..Len(team_ave_thresholds) :
            /\ NameMatches(team_ave_thresholds[i].Team, ret.subject)
            /\ team_ave_thresholds[i].EffectiveDate # NoDate}

RowDate(i) ==
    IF ret.op \in TherapistResolverOps THEN competency_history[i].EffectiveDate
    ELSE team_ave_thresholds[i].EffectiveDate

\* the subject's rows in effect on the 15th of month m: the latest ones that
\* are not later than that day
LatestRows(yr, m) ==
    {i \in SubjectRows :
        /\ RowDate(i) <= Date(yr, m, 15)
        /\ \A j \in SubjectRows : RowDate(j) <= Date(yr, m, 15) => RowDate(j) <= RowDate(i)}

\* the regimes (competency labels) in effect for the therapist in month m
CompetenciesAt(yr, m) == {competency_history[i].Competency : i \in LatestRows(yr, m)}

\* the regimes (threshold bundles) in effect for the team in month m
BundlesAt(yr, m) ==
    {Bundle(team_ave_thresholds[i].Billings_Red_Below, team_ave_thresholds[i].Billings_Green_Min,
            team_ave_thresholds[i].Billings_Green_Max, team_ave_thresholds[i].Billings_Blue_Above) :
        i \in LatestRows(yr, m)}

\* C2: a subject without a dated history row of its name, and any call with a
\* falsy year, gets None from each of the three resolvers.
C2_NoHistoryOrYearGivesNone ==
    ret.op \in ResolverOps =>
        ((SubjectRows = {} \/ ret.year = NoYear) => ret.ranges = NoRanges)

\* A resolver was called for a subject none of whose rows match although the
\* history sheet has rows, and returned None.
C2_Witness ==
    /\ ret.op \in ResolverOps
    /\ SubjectRows = {}
    /\ ret.year # NoYear
    /\ Len(competency_history) + Len(team_ave_thresholds) > 0
    /\ ret.ranges = NoRanges

\* the regimes in effect in each month of the year of the last call
RegimesByMonth ==
    IF ret.op \in TherapistResolverOps
    THEN [m \in 1..12 |-> CompetenciesAt(ret.year, m)]
    ELSE [m \in 1..12 |-> BundlesAt(ret.year, m)]

OneRegimeAllYear ==
    \E reg \in {RegimesByMonth} :
        /\ \A m \in 1..12 : reg[m] # {}
        /\ Cardinality(UNION {reg[m] : m \in 1..12}) = 1

\* C3: when one and the same regime is in effect in all 12 months, each
\* resolver returns None (single-range collapse).
C3_SingleRegimeGivesNone ==
    (ret.op \in ResolverOps /\ ret.year # NoYear /\ OneRegimeAllYear) => ret.ranges = NoRanges

\* A resolver collapsed a history of several dated rows with one regime.
C3_Witness ==
    /\ ret.op \in ResolverOps
    /\ ret.year # NoYear
    /\ OneRegimeAllYear
    /\ Cardinality(SubjectRows) >= 2
    /\ ret.ranges = NoRanges

\* in the regimes-by-month reg, competency X is in effect from the first month
\* F that has one to month M, and Y from month M + 1 to December
TwoRegimes(reg, F, M, X, Y) ==
    \A m \in 1..12 : reg[m] = IF m < F THEN {} ELSE IF m <= M THEN {X} ELSE {Y}

\* C4: competency X through month M and Y # X from month M + 1 on give exactly
\* the two ranges (X, column(first month), column(M)) and (Y, column(M + 1),
\* Average column).
C4_TwoRangesAtTheBoundary ==
    (ret.op \in TherapistResolverOps /\ ret.year # NoYear /\ "Average" \in DOMAIN ret.data_cols) =>
        \A reg \in {RegimesByMonth} :
            \A M \in 1..11 : \A F \in 1..M : \A X \in reg[M] \ {NULL} : \A Y \in reg[12] \ {NULL} :
                (X # Y /\ TwoRegimes(reg, F, M, X, Y)) =>
                    ret.ranges = << <<X, ret.data_cols[MonthNames[F]], ret.data_cols[MonthNames[M]]>>,
                                    <<Y, ret.data_cols[MonthNames[M + 1]], ret.data_cols["Average"]>> >>

\* The Team Leader resolver returned two ranges for a competency change after
\* April.
C4_Witness ==
    /\ ret.op = "get_competency_ranges_for_therapist"
    /\ ret.year # NoYear
    /\ ret.data_cols = StdCols
    /\ TwoRegimes(RegimesByMonth, 1, 4, "CA", "Senior")
    /\ ret.ranges = << <<"CA", 3, 6>>, <<"Senior", 7, 15>> >>

\* the month columns increase in calendar order, with Average to their right
ColumnsInOrder(dc) ==
    /\ \A i \in 1..12, j \in 1..12 :
          (i < j /\ MonthNames[i] \in DOMAIN dc /\ MonthNames[j] \in DOMAIN dc)
              => dc[MonthNames[i]] < dc[MonthNames[j]]
    /\ "Average" \in DOMAIN dc =>
          \A i \in 1..12 : MonthNames[i] \in DOMAIN dc => dc[MonthNames[i]] < dc["Average"]

\* the month columns present are next to each other
ColumnsAdjacent(dc) ==
    LET cols == {dc[h] : h \in DOMAIN dc} IN \A c \in Min(cols)..Max(cols) : c \in cols

\* the grouping key of a returned range
RangeKey(r) ==
    IF ret.op \in TherapistResolverOps THEN r[1] ELSE <<r[1].green_min, r[1].blue_above>>

RangesWellFormed(rs) ==
    /\ Len(rs) >= 2
    /\ \A i \in 1..Len(rs) : rs[i][2] <= rs[i][3]
    /\ \A i \in 1..(Len(rs) - 1) : rs[i][3] < rs[i + 1][2]
    /\ \A i \in 1..(Len(rs) - 1) : RangeKey(rs[i]) # RangeKey(rs[i + 1])

RangesContiguous(rs) == \A i \in 1..(Len(rs) - 1) : rs[i + 1][2] = rs[i][3] + 1

BlankCompetencyRow ==
    /\ ret.op \in TherapistResolverOps
    /\ \E i \in SubjectRows : ~Truthy(competency_history[i].Competency)

------------------------------------------------------------------------------
(* The thresholds format_regular_table applies (SpecResolve) *)

\* the history rows of a therapist
RowsOf(name) ==
    {i \in 1..Len(competency_history) : NameMatches(competency_history[i].Name, name)}

\* the rows of a therapist in effect on the 15th of month m
LatestOf(name, yr, m) ==
    {i \in RowsOf(name) :
        /\ competency_history[i].EffectiveDate <= Date(yr, m, 15)
        /\ \A j \in RowsOf(name) :
              competency_history[j].EffectiveDate <= Date(yr, m, 15)
                 => competency_history[j].EffectiveDate <= competency_history[i].EffectiveDate}

\* the therapist's current Competency of Config_Therapists
CurrentCompetency(name) ==
    therapists[CHOOSE i \in 1..Len(therapists) : NameMatches(therapists[i].Name, name)].Competency

\* A history every row of which has a date and a competency with thresholds,
\* no two rows of one date, and whose latest row is the current competency.
PlainHistory(name) ==
    /\ \A i \in RowsOf(name) :
          /\ competency_history[i].EffectiveDate # NoDate
          /\ competency_history[i].Competency \in DOMAIN thresholds
    /\ \A i \in RowsOf(name), j \in RowsOf(name) :
          i # j => competency_history[i].EffectiveDate # competency_history[j].EffectiveDate
    /\ \A i \in RowsOf(name) :
          (\A j \in RowsOf(name) :
              competency_history[j].EffectiveDate <= competency_history[i].EffectiveDate)
          => competency_history[i].Competency = CurrentCompetency(name)

\* the competency the contract names for month m
ContractCompetency(name, yr, m) ==
    IF LatestOf(name, yr, m) = {} THEN CurrentCompetency(name)
    ELSE competency_history[CHOOSE i \in LatestOf(name, yr, m) : TRUE].Competency

\* what a rule list does, whatever cells it is attached to
RuleSig(rules) == [i \in 1..Len(rules) |-> <<rules[i].op, rules[i].f1, rules[i].fill>>]

\* C1 as stated: after a formatting pass, the billing rules on the cell of
\* every month of a therapist row are those of the competency of the latest
\* history row in effect on the 15th, or of the current Competency when there
\* is none.
C1_Original ==
    (ret.op = "format_team_leader_sheet" /\ ret.year # NoYear) =>
        \A row \in (tables["Billings_OT"].min_row + 1)..tables["Billings_OT"].max_row :
            PlainHistory(Cell(row, 2)) =>
                \A m \in 1..12 :
                    RuleSig(RulesAt(row, StdCols[MonthNames[m]])) =
                    RuleSig(apply_billing_rules(<<row, 0, 0>>,
                               ThresholdsGet(ContractCompetency(Cell(row, 2), ret.year, m))))

------------------------------------------------------------------------------
(* The rule engine on its own: SpecFormat adds rule lists to one sheet *)

\* rules a sheet may hold before a further list is added
MaxRules == 5

\* rows the rule lists are attached to
KpiRows == {4, 5}

\* billing bundles around green_min = 4.0 and blue_above = 6.0, in thousandths
BillingBundles ==
    {Bundle(rb, gb[1], gx, gb[2]) :
        rb \in {3500, 3900}, gx \in {5000, 6000},
        gb \in {<<4000, 6000>>, <<4000, 4000>>, <<6000, 4000>>}}

\* ceased bundles around blue_below = 0.025 and red_above = 0.04, in thousandths
CeasedBundles ==
    {[blue_below |-> br[1], green_min |-> br[1], green_max |-> br[2], red_above |-> br[2]] :
        br \in {<<25, 40>>, <<40, 40>>, <<40, 25>>}}

\* a Config_RatingThresholds sheet with boundaries of its own
CustomRatings ==
    << [rating |-> 1, min |-> 1000, max |-> 1999],
       [rating |-> 2, min |-> 2000, max |-> 2999],
       [rating |-> 3, min |-> 3000, max |-> 3999],
       [rating |-> 4, min |-> 4000, max |-> 4799],
       [rating |-> 5, min |-> 4800, max |-> 5000] >>

RatingInputs == {<< >>, LoadedRatingDefaults, CustomRatings}

\* the state before any rule is added
InitFormat ==
    /\ InitCache
    /\ InitStaticConfig
    /\ competency_history = << >>
    /\ team_ave_thresholds = << >>
    /\ InitOTSheet
    /\ ret = [op |-> "none"]

\* ws.conditional_formatting.add for each rule of a list, in order
AddRules(op, input, rules) ==
    /\ Len(cf) < MaxRules
    /\ cf' = cf \o rules
    /\ ret' = [op |-> op, input |-> input, rules |-> rules]
    /\ UNCHANGED <<cacheVars, configVars, sheetVars, wb>>

ApplyBillingRules ==
    \E b \in BillingBundles \cup {NoBundle}, row \in KpiRows :
        AddRules("apply_billing_rules", b, apply_billing_rules(<<row, 3, 15>>, b))

ApplyBillingFormattingV2 ==
    \E b \in BillingBundles \cup {NoBundle}, row \in KpiRows :
        AddRules("apply_billing_formatting_v2", b, apply_billing_formatting_v2(b, row))

ApplyCeasedRules ==
    \E c \in CeasedBundles \cup {NoBundle}, row \in KpiRows :
        AddRules("apply_ceased_rules", c, apply_ceased_rules(<<row, 3, 15>>, c))

ApplyCeasedServicesFormattingV2 ==
    \E c \in CeasedBundles \cup {NoBundle}, row \in KpiRows :
        AddRules("apply_ceased_services_formatting_v2", c,
                 apply_ceased_services_formatting_v2(c, row))

ApplyRatingRules ==
    \E rts \in RatingInputs, row \in KpiRows :
        AddRules("apply_rating_rules", rts, apply_rating_rules(<<row, 3, 15>>, rts))

\* the row lists update_individual_sheet_v2 passes: OT and Physio
RatingRowLists == {<<5, 6, 7, 8>>, <<6, 7, 8>>}

ApplyRatingScaleFormattingV2 ==
    \E rts \in RatingInputs, kpi_rows \in RatingRowLists :
        AddRules("apply_rating_scale_formatting_v2", rts,
                 apply_rating_scale_formatting_v2(kpi_rows, rts))

\* the cell ranges update_individual_sheet passes: OT and Physio
RatingCellRanges == {<<"D5:D17", "E5:E17", "F5:F17", "G5:G17">>, <<"E5:E17", "F5:F17", "G5:G17">>}

ApplyRatingScaleFormatting ==
    \E rts \in RatingInputs, cell_ranges \in RatingCellRanges :
        AddRules("apply_rating_scale_formatting", rts,
                 apply_rating_scale_formatting(cell_ranges, rts))

\* team_leader_formatting.clear_all_conditional_formatting
ClearAllConditionalFormatting ==
    /\ cf # << >>
    /\ cf' = << >>
    /\ ret' = [op |-> "clear_all_conditional_formatting"]
    /\ UNCHANGED <<cacheVars, configVars, sheetVars, wb>>

NextFormat ==
    \/ ApplyBillingRules
    \/ ApplyBillingFormattingV2
    \/ ApplyCeasedRules
    \/ ApplyCeasedServicesFormattingV2
    \/ ApplyRatingRules
    \/ ApplyRatingScaleFormattingV2
    \/ ApplyRatingScaleFormatting
    \/ ClearAllConditionalFormatting

SpecFormat == InitFormat /\ [][NextFormat]_vars

------------------------------------------------------------------------------
(* Banding (SpecFormat) *)

BillingOps == {"apply_billing_rules", "apply_billing_formatting_v2"}

CeasedOps == {"apply_ceased_rules", "apply_ceased_services_formatting_v2"}

\* cells around the billing boundaries
BillingCells == {BlankCell} \cup {NumCell(x) : x \in {0, 3900, 4000, 5000, 6000, 6100}}

\* cells around the ceased boundaries
CeasedCells == {BlankCell} \cup {NumCell(x) : x \in {0, 20, 25, 30, 40, 50}}

\* cells around the rating boundaries
RatingCells ==
    {BlankCell} \cup
    {NumCell(x) : x \in {0, 1200, 1499, 1500, 2499, 2500, 3499, 3500, 4490, 4499, 4500, 5000}}

BillingBand(green_min, blue_above, cell) ==
    IF cell.blank THEN "white"
    ELSE IF cell.v < green_min THEN "red"
    ELSE IF cell.v <= blue_above THEN "green"
    ELSE "blue"

RuleOps(rules) == [i \in 1..Len(rules) |-> <<rules[i].op, rules[i].fill>>]

\* C6: for a bundle with green_min <= blue_above, the billing rules are added
\* in the order blank->white, > blue_above->blue, >= green_min->green,
\* < green_min->red and, the earliest-added matching rule taking precedence,
\* colour a cell white when blank, red below green_min, green from green_min to
\* blue_above, blue above blue_above, whatever red_below and green_max are.
C6_BillingBanding ==
    (ret.op \in BillingOps /\ ret.input # NoBundle) =>
        (ret.input.green_min <= ret.input.blue_above =>
            /\ RuleOps(ret.rules) = << <<"blank", "white">>, <<"greaterThan", "blue">>,
                                       <<"greaterThanOrEqual", "green">>, <<"lessThan", "red">> >>
            /\ \A cell \in BillingCells :
                  FirstMatchFill(ret.rules, cell) =
                      BillingBand(ret.input.green_min, ret.input.blue_above, cell))

\* Billing rules were added for green_min 4.0 < blue_above 6.0 with a red_below
\* and a green_max that are no boundary, and 6.1 is blue.
C6_Witness ==
    /\ ret.op \in BillingOps
    /\ ret.input = Bundle(3900, 4000, 5000, 6000)
    /\ FirstMatchFill(ret.rules, NumCell(6100)) = "blue"
    /\ FirstMatchFill(ret.rules, NumCell(3900)) = "red"

\* C7 as stated: when every matching rule is applied and the last-added one
\* wins, the billing rules give red below green_min, green from green_min to
\* blue_above, blue above blue_above and white for a blank cell.
C7_Original ==
    (ret.op = "apply_billing_rules" /\ ret.input # NoBundle) =>
        (ret.input.green_min <= ret.input.blue_above =>
            \A cell \in BillingCells :
                LastMatchFill(ret.rules, cell) =
                    BillingBand(ret.input.green_min, ret.input.blue_above, cell))

\* C7 amended: when every matching rule is applied and the last-added one
\* wins, the billing rules colour every cell (a blank cell comparing as 0) red
\* below green_min and green from green_min upwards; no cell is blue.
C7_LastAddedWinsGivesTwoBands ==
    (ret.op = "apply_billing_rules" /\ ret.input # NoBundle) =>
        \A cell \in BillingCells :
            LastMatchFill(ret.rules, cell) =
                IF cell.v < ret.input.green_min THEN "red" ELSE "green"

\* Billing rules were added for blue_above 6.0 and the last matching rule of
\* 6.1 is the green one.
C7_Witness ==
    /\ ret.op = "apply_billing_rules"
    /\ ret.input # NoBundle
    /\ ret.input.green_min = 4000 /\ ret.input.blue_above = 6000
    /\ Matches(ret.rules[2], NumCell(6100))
    /\ LastMatchFill(ret.rules, NumCell(6100)) = "green"

\* the ceased thresholds a call works with
CeasedUsed == IF ret.input = NoBundle THEN DEFAULT_CEASED_THRESHOLDS ELSE ret.input

\* C8: for a ceased bundle with blue_below <= red_above, the ceased rules are
\* added in the order blank->white, < blue_below->blue, < red_above->green,
\* >= red_above->red and, the earliest-added matching rule taking precedence,
\* colour a cell white when blank, blue below blue_below, green from blue_below
\* to below red_above, red from red_above; a non-blank cell has one of the
\* three colours.
C8_CeasedBanding ==
    (ret.op \in CeasedOps /\ CeasedUsed.blue_below <= CeasedUsed.red_above) =>
        /\ RuleOps(ret.rules) = << <<"blank", "white">>, <<"lessThan", "blue">>,
                                   <<"lessThan", "green">>, <<"greaterThanOrEqual", "red">> >>
        /\ \A cell \in CeasedCells :
              FirstMatchFill(ret.rules, cell) =
                  IF cell.blank THEN "white"
                  ELSE IF cell.v < CeasedUsed.blue_below THEN "blue"
                  ELSE IF cell.v < CeasedUsed.red_above THEN "green"
                  ELSE "red"
        /\ \A cell \in CeasedCells \ {BlankCell} :
              FirstMatchFill(ret.rules, cell) \in {"blue", "green", "red"}

\* Ceased rules were added for blue_below 0.025 and red_above 0.04, and 0.02 is
\* blue, 0.03 green, 0.04 red.
C8_Witness ==
    /\ ret.op \in CeasedOps
    /\ ret.input # NoBundle
    /\ ret.input.blue_below = 25 /\ ret.input.red_above = 40
    /\ FirstMatchFill(ret.rules, NumCell(20)) = "blue"
    /\ FirstMatchFill(ret.rules, NumCell(30)) = "green"
    /\ FirstMatchFill(ret.rules, NumCell(40)) = "red"

\* C9: with no rating thresholds of its own in the config (an empty list, or
\* the list load_config substitutes), apply_rating_rules colours a cell blue
\* from 4.5, green from 3.5 to below 4.5, yellow from 2.5 to below 3.5, amber
\* from 1.5 to below 2.5, red below 1.5 and white when blank, the
\* earliest-added matching rule taking precedence.
C9_DefaultRatingBanding ==
    (ret.op = "apply_rating_rules" /\ ret.input \in {<< >>, LoadedRatingDefaults}) =>
        \A cell \in RatingCells :
            FirstMatchFill(ret.rules, cell) =
                IF cell.blank THEN "white"
                ELSE IF cell.v >= 4500 THEN "blue"
                ELSE IF cell.v >= 3500 THEN "green"
                ELSE IF cell.v >= 2500 THEN "yellow"
                ELSE IF cell.v >= 1500 THEN "amber"
                ELSE "red"

\* Rating rules were added without rating thresholds, and 4.5 is blue, 4.49
\* green, 1.2 red.
C9_Witness ==
    /\ ret.op = "apply_rating_rules"
    /\ ret.input = << >>
    /\ FirstMatchFill(ret.rules, NumCell(4500)) = "blue"
    /\ FirstMatchFill(ret.rules, NumCell(4490)) = "green"
    /\ FirstMatchFill(ret.rules, NumCell(1200)) = "red"

------------------------------------------------------------------------------
(* Team table sync (team_table_sync.py) *)

\* code point of a character, for the comparison of names in sorted()
CharCode(c) ==
    CASE c = " " -> 32  [] c = "A" -> 65  [] c = "O" -> 79  [] c = "T" -> 84
      [] c = "a" -> 97  [] c = "b" -> 98  [] c = "c" -> 99  [] c = "d" -> 100
      [] c = "e" -> 101
      [] c = "l" -> 108 [] c = "o" -> 111 [] c = "t" -> 116 [] c = "y" -> 121
      [] OTHER -> 0

\* a < b for two strings given as character sequences
RECURSIVE SeqLess(_, _)
SeqLess(a, b) ==
    IF b = << >> THEN FALSE
    ELSE IF a = << >> THEN TRUE
    ELSE IF CharCode(Head(a)) # CharCode(Head(b)) THEN CharCode(Head(a)) < CharCode(Head(b))
    ELSE SeqLess(Tail(a), Tail(b))

\* a variant of COMPETENCY_ORDER that ranks the competencies alphabetically
COMPETENCY_ORDER_Alphabetical(c) ==
    CASE c = "CA" -> 1 [] c = "Grad" -> 2 [] c = "Senior" -> 3 [] OTHER -> 99

COMPETENCY_ORDER(c) ==
    CASE c = "Senior" -> 1 [] c = "CA" -> 2 [] c = "Grad" -> 3 [] OTHER -> 99

TEAM_SHEET_MAP(team_name) ==
    CASE team_name = "Physio_North" -> "KPI Dashboard North"
      [] team_name = "Physio_South" -> "KPI Dashboard South"
      [] team_name = "OT"           -> "KPI Dashboard OT"
      [] OTHER                      -> team_name

TEAM_TABLES(team_name) ==
    CASE team_name = "Physio_North" ->
            <<"Billings_North", "Ceased_North", "Documentation_North", "Admin_North",
              "Attitude_North">>
      [] team_name = "Physio_South" ->
            <<"Billings_South", "Ceased_South", "Documentation_South", "Admin_South",
              "Attitude_South">>
      [] team_name = "OT" ->
            <<"Billings_OT", "Compliance_OT", "ReferrerEng_OT", "Capacity_OT", "Attitude_OT">>
      [] OTHER -> << >>

\* sort_key of get_therapists_for_team
sort_key(t) ==
    <<IF t.IsTeamLeader THEN 0 ELSE 1, COMPETENCY_ORDER(t.Competency), Chars(t.Name)>>

\* k1 < k2 for two sort keys
KeyLess(k1, k2) ==
    \/ k1[1] < k2[1]
    \/ k1[1] = k2[1] /\ k1[2] < k2[2]
    \/ k1[1] = k2[1] /\ k1[2] = k2[2] /\ SeqLess(k1[3], k2[3])

RECURSIVE InsertByKey(_, _)
InsertByKey(t, sorted) ==
    IF sorted = << >> THEN <<t>>
    ELSE IF KeyLess(sort_key(t), sort_key(Head(sorted))) THEN <<t>> \o sorted
    ELSE <<Head(sorted)>> \o InsertByKey(t, Tail(sorted))

\* sorted(team_therapists, key=sort_key): stable
RECURSIVE SortByKey(_)
SortByKey(ts) ==
    IF ts = << >> THEN << >>
    ELSE InsertByKey(ts[Len(ts)], SortByKey(SubSeq(ts, 1, Len(ts) - 1)))

\* team_table_sync.get_therapists_for_team
get_therapists_for_team(config_therapists, team_name) ==
    SortByKey(SelectSeq(config_therapists, LAMBDA t : t.Team = team_name))

\* the value of a cell of a sheet given as a function
CellOf(cs, r, c) == IF <<r, c>> \in DOMAIN cs THEN cs[<<r, c>>] ELSE NULL

\* team_table_sync.get_table_rows: the data rows of a table that have a name
get_table_rows(cs, t) ==
    {r \in (t.min_row + 1)..t.max_row : Truthy(CellOf(cs, r, t.min_col))}

\* team_table_sync.is_placeholder_row, on the names a table holds
is_placeholder_row(name) ==
    \/ ~Truthy(name)
    \/ name \in {"PLACEHOLDER", "Placeholder 1"}

\* row_delta with the operands exchanged
row_delta_Exchanged(new_row_count, first_table) ==
    (first_table.max_row - first_table.min_row) - new_row_count

\* row_delta of sync_team_tables
row_delta(new_row_count, first_table) ==
    new_row_count - (first_table.max_row - first_table.min_row)

NoPending == [none |-> TRUE]

NoStats == [tables |-> 0, added |-> 0, removed |-> 0]

\* a variant of current_data that finds no row for any name
current_data_None(cs, t, name) == 0

\* current_data.get(name) given as a row index: the last row of the table whose
\* stripped name is the key (0: the name is not a key)
current_data(cs, t, name) ==
    LET m == {r \in get_table_rows(cs, t) : Strip(CellOf(cs, r, t.min_col)) = Chars(name)}
    IN  IF m = {} THEN 0 ELSE Max(m)

\* a variant of WriteCols that includes the last column
WriteCols_All(t) == t.min_col..t.max_col

\* the columns the rewrite and the clearing touch: range(col_count - 1), every
\* column of the table but the last
WriteCols(t) == t.min_col..(t.max_col - 1)

\* the rows cleared after the rewrite of a roster of n: none unless
\* row_delta < 0, then first_data_row + n up to the table's max_row
ClearRows(t, n, delta) ==
    IF delta < 0 THEN (t.min_row + 1 + n)..t.max_row ELSE {}

\* One pass of the loop "for table_name in table_names" of sync_team_tables on
\* a table that exists: the roster rewrite, the styling, and the clearing of
\* the excess rows.  sh is the sheet so far, [cells, styles].
SyncOneTable(sh, t, roster, delta) ==
    LET cs             == sh.cells
        current_rows   == get_table_rows(cs, t)
        src(name)      == current_data(cs, t, name)
        first_data_row == t.min_row + 1
        writeRows      == first_data_row..(first_data_row + Len(roster) - 1)
        writeCols      == WriteCols(t)
        clearRows      == ClearRows(t, Len(roster), delta)
        written        == writeRows \X writeCols
        cleared        == clearRows \X writeCols
        current_names  == {Strip(CellOf(cs, r, t.min_col)) : r \in current_rows}
        expected_names == {Chars(roster[i].Name) : i \in 1..Len(roster)}
        placeholders   == {Strip(CellOf(cs, r, t.min_col)) :
                              r \in {q \in current_rows : is_placeholder_row(CellOf(cs, q, t.min_col))}}
    IN
    [cells  |-> [x \in DOMAIN cs \cup written \cup cleared |->
                    IF x \in written
                    THEN LET th == roster[x[1] - first_data_row + 1] IN
                         IF x[2] = t.min_col THEN th.Name
                         ELSE IF src(th.Name) # 0 THEN CellOf(cs, src(th.Name), x[2])
                         ELSE NULL
                    ELSE IF x \in cleared THEN NULL
                    ELSE cs[x]],
     styles |-> [x \in DOMAIN sh.styles \cup written |->
                    IF x \in written
                    THEN IF roster[x[1] - first_data_row + 1].IsActive THEN "default"
                         ELSE "inactive"
                    ELSE sh.styles[x]],
     added   |-> Cardinality(expected_names \ current_names),
     removed |-> Cardinality((current_names \ expected_names) \cup placeholders)]

\* the loop over table_names; a table the sheet does not have is skipped
RECURSIVE SyncTables(_, _, _, _, _)
SyncTables(names, sh, stats, roster, delta) ==
    IF names = << >> THEN [cells |-> sh.cells, styles |-> sh.styles, stats |-> stats]
    ELSE IF Head(names) \notin DOMAIN sh.tables
         THEN SyncTables(Tail(names), sh, stats, roster, delta)
         ELSE CHOOSE res \in
                 {SyncTables(Tail(names),
                             [cells |-> one.cells, styles |-> one.styles, tables |-> sh.tables],
                             [tables  |-> stats.tables + 1,
                              added   |-> stats.added + one.added,
                              removed |-> stats.removed + one.removed],
                             roster, delta) :
                     one \in {SyncOneTable(sh, sh.tables[Head(names)], roster, delta)}} : TRUE

\* what sync_team_tables returns
SyncResult(team_name, stats, skipped, pending_change) ==
    [op |-> "sync_team_tables", team_name |-> team_name, tables |-> stats.tables,
     added |-> stats.added, removed |-> stats.removed, skipped |-> skipped,
     pending_change |-> pending_change]

PendingChange(team_name, action, row_count) ==
    [sheet_name |-> TEAM_SHEET_MAP(team_name), team_name |-> team_name,
     action |-> action, row_count |-> row_count]

\* team_table_sync.sync_team_tables(ws, team_name, config) on the sheet
\* ws = [cells, styles, tables]: the cells and styles it leaves and what it
\* returns
sync_team_tables(ws, team_name) ==
    LET roster      == get_therapists_for_team(therapists, team_name)
        table_names == TEAM_TABLES(team_name)
        same        == [cells |-> ws.cells, styles |-> ws.styles]
    IN
    IF roster = << >>
    THEN same @@ [ret |-> SyncResult(team_name, NoStats, FALSE, NoPending)]
    ELSE IF table_names = << >> \/ table_names[1] \notin DOMAIN ws.tables
    THEN same @@ [ret |-> SyncResult(team_name, NoStats, TRUE, NoPending)]
    ELSE LET delta == row_delta(Len(roster), ws.tables[table_names[1]]) IN
         IF delta > 0
         THEN same @@ [ret |-> SyncResult(team_name, NoStats, TRUE,
                                          PendingChange(team_name, "add", delta))]
         ELSE CHOOSE out \in
                 {[cells |-> r.cells, styles |-> r.styles,
                   ret |-> SyncResult(team_name, r.stats, FALSE,
                                      IF delta < 0
                                      THEN PendingChange(team_name, "delete", 0 - delta)
                                      ELSE NoPending)] :
                     r \in {SyncTables(table_names, ws, NoStats, roster, delta)}} : TRUE

SyncTeamTables(team_name) ==
    \E out \in {sync_team_tables([cells |-> cells, styles |-> styles, tables |-> tables],
                                  team_name)} :
        /\ cells' = out.cells
        /\ styles' = out.styles
        /\ ret' = out.ret
        /\ UNCHANGED <<cacheVars, configVars, tables, cf, wb>>

------------------------------------------------------------------------------
(* SpecSync: sync_team_tables on a sheet of two small tables *)

\* therapists a loaded config may list
MaxRoster == 3

\* data rows a table may declare
MaxTableRows == 2

TherapistPool ==
    {Therapist("al", "OT", "Senior", TRUE, FALSE),
     Therapist("bo", "OT", "Grad", FALSE, FALSE),
     Therapist("cy", "OT", "CA", TRUE, TRUE),
     Therapist("dy", "Physio_North", "Senior", TRUE, FALSE),
     Therapist("Al", "OT", "Grad", TRUE, FALSE),
     Therapist("ed", "OT", "Lead", TRUE, FALSE)}

\* the names down the first column of the tables
NameLists ==
    {<<"al", "bo", "cy">>, <<"bo", "Al ", "PLACEHOLDER">>,
     <<NULL, "al", "bo">>, <<"cy", "cy", "al">>}

NameAt(names, i) == IF i <= Len(names) THEN names[i] ELSE NULL

\* A table of k data rows under a header in row hdr, columns B..E: Name, Jan,
\* Feb, Average.  A row without a name is empty but for its Average formula.
SyncTableCells(names, hdr, k) ==
    [x \in (hdr..(hdr + k)) \X (2..5) |->
        IF x[1] = hdr THEN <<"Name", "Jan", "Feb", "Average">>[x[2] - 1]
        ELSE IF x[2] = 2 THEN NameAt(names, x[1] - hdr)
        ELSE IF x[2] = 5 THEN "=AVG" \o ToString(x[1])
        ELSE IF NameAt(names, x[1] - hdr) = NULL THEN NULL
        ELSE "v" \o ToString(10 * x[1] + x[2])]

\* the cells of the sheet
SyncGrid == (1..20) \X (2..5)

\* Billings_OT under row 1 (k1 data rows) and Compliance_OT under row 10 (k2
\* data rows); 0 data rows: the sheet does not have the table
SyncSheetCells(names, k1, k2) ==
    LET t1 == IF k1 > 0 THEN SyncTableCells(names, 1, k1) ELSE << >>
        t2 == IF k2 > 0 THEN SyncTableCells(names, 10, k2) ELSE << >>
    IN  [x \in SyncGrid |->
            IF x \in DOMAIN t1 THEN t1[x] ELSE IF x \in DOMAIN t2 THEN t2[x] ELSE NULL]

SyncSheetTables(k1, k2) ==
    LET t1 == IF k1 > 0 THEN ("Billings_OT" :> Ref(2, 1, 5, 1 + k1)) ELSE << >>
        t2 == IF k2 > 0 THEN ("Compliance_OT" :> Ref(2, 10, 5, 10 + k2)) ELSE << >>
    IN  t1 @@ t2

InitSync ==
    /\ InitCache
    /\ therapists \in SeqsUpTo(TherapistPool, MaxRoster)
    /\ competency_history = << >>
    /\ team_ave_thresholds = << >>
    /\ thresholds = [c \in {"Grad", "CA", "Senior"} |-> Bundle(3500, 4000, 6000, 6000)]
    /\ ceased_thresholds = LoadedCeasedDefaults
    /\ rating_thresholds = LoadedRatingDefaults
    \* Compliance_OT is absent, has as many data rows as Billings_OT, or has
    \* another number of rows: more under a Billings_OT of one row, else one
    /\ \E names \in NameLists, k1 \in 0..MaxTableRows, k2 \in 0..MaxTableRows :
          /\ k2 \in {0, k1, IF k1 = 1 THEN MaxTableRows ELSE 1}
          /\ cells = SyncSheetCells(names, k1, k2)
          /\ tables = SyncSheetTables(k1, k2)
    /\ styles = [x \in SyncGrid |-> "default"]
    /\ cf = << >>
    /\ wb = NoSheets
    /\ ret = [op |-> "none"]

SyncTeams == {"OT", "Physio_North"}

NextSync == \E team_name \in SyncTeams : SyncTeamTables(team_name)

SpecSync == InitSync /\ [][NextSync]_vars

------------------------------------------------------------------------------
(* The grow case (SpecSync) *)

\* the team's config rows
RosterCount(team_name) ==
    Cardinality({i \in 1..Len(therapists) : therapists[i].Team = team_name})

\* how many rows the roster exceeds the first table by (0: the sheet does not
\* have the table)
GrowBy(team_name) ==
    IF TEAM_TABLES(team_name)[1] \in DOMAIN tables
    THEN RosterCount(team_name)
         - (tables[TEAM_TABLES(team_name)[1]].max_row - tables[TEAM_TABLES(team_name)[1]].min_row)
    ELSE 0

\* C10: a run of sync_team_tables for a team whose roster exceeds the first
\* table's data rows by delta > 0 returns skipped with the pending change
\* (add, delta) and leaves every cell value, every fill and font, and every
\* table range as it was.
C10_GrowCaseWritesNothing ==
    [][\A team_name \in SyncTeams :
          (ret'.op = "sync_team_tables" /\ ret'.team_name = team_name /\ GrowBy(team_name) > 0) =>
              /\ ret'.skipped
              /\ ret'.pending_change = PendingChange(team_name, "add", GrowBy(team_name))
              /\ ret'.pending_change.action = "add"
              /\ ret'.pending_change.row_count = GrowBy(team_name)
              /\ cells' = cells
              /\ styles' = styles
              /\ tables' = tables]_vars

\* A run returned the pending change (add, 1) for a roster of 3 and a first
\* table of 2 rows, one of which has a name the roster would move.
C10_Witness ==
    /\ ret.op = "sync_team_tables"
    /\ ret.skipped
    /\ ret.pending_change = PendingChange("OT", "add", 1)
    /\ RosterCount("OT") = 3
    /\ tables["Billings_OT"].max_row - tables["Billings_OT"].min_row = 2
    /\ Cell(2, 2) # get_therapists_for_team(therapists, "OT")[1].Name

------------------------------------------------------------------------------
(* The shrink case (SpecSync) *)

\* the tables of the team that the sheet has
TeamTablesPresent(team_name) ==
    {TEAM_TABLES(team_name)[i] : i \in 1..Len(TEAM_TABLES(team_name))} \cap DOMAIN tables

\* how many rows the first table exceeds the roster by (0: the sheet does not
\* have the table)
ShrinkBy(team_name) == 0 - GrowBy(team_name)

\* the data rows of a table below the first n
RowsBeyond(t, n) == (t.min_row + 1 + n)..t.max_row

\* C11 as stated: a run of sync_team_tables for a team whose roster is smaller
\* than the first table's data rows by k > 0 leaves, in every table of the
\* team, the rows beyond the roster (the k trailing rows of a table with as
\* many rows as the first) with every column but the rightmost null, leaves
\* every declared range as it was, and returns the pending change (delete, k).
C11_Original ==
    [][\A team_name \in SyncTeams :
          (ret'.op = "sync_team_tables" /\ ret'.team_name = team_name /\ ShrinkBy(team_name) > 0) =>
              /\ \A tn \in TeamTablesPresent(team_name) :
                    \A r \in RowsBeyond(tables[tn], RosterCount(team_name)) :
                        \A c \in tables[tn].min_col..(tables[tn].max_col - 1) :
                            CellOf(cells', r, c) = NULL
              /\ tables' = tables
              /\ ret'.pending_change = PendingChange(team_name, "delete", ShrinkBy(team_name))]_vars

------------------------------------------------------------------------------
(* Running the reconciler twice (SpecSync) *)

\* the state is the one a run of sync_team_tables for the team has just left
JustSynced(team_name) == ret.op = "sync_team_tables" /\ ret.team_name = team_name

\* a step that is a run of sync_team_tables for the team
SyncStep(team_name) == ret'.op = "sync_team_tables" /\ ret'.team_name = team_name

\* C12 as stated: a second run of sync_team_tables for the same team, straight
\* after the first and on the same roster, leaves the cells as the first run
\* left them and returns no pending change.
C12_Original ==
    [][\A team_name \in SyncTeams :
          (JustSynced(team_name) /\ SyncStep(team_name)) =>
              /\ cells' = cells
              /\ ret'.pending_change = NoPending]_vars

------------------------------------------------------------------------------
(* What the roster rewrite keeps (SpecSync) *)

\* the run for the team writes: the roster is not empty, the first table
\* exists and has at least as many rows as the roster
SyncWrites(team_name) ==
    /\ RosterCount(team_name) > 0
    /\ TEAM_TABLES(team_name)[1] \in DOMAIN tables
    /\ GrowBy(team_name) <= 0

\* the Names of the team's config rows
RosterNames(team_name) ==
    {therapists[i].Name : i \in {j \in 1..Len(therapists) : therapists[j].Team = team_name}}

\* the data rows of the table, in the cells cs, that carry the name
RowsNamed(cs, t, name) ==
    {r \in (t.min_row + 1)..t.max_row :
        CellOf(cs, r, t.min_col) # NULL /\ Strip(CellOf(cs, r, t.min_col)) = Chars(name)}

\* the columns between the name column and the rightmost one
ValueCols(t) == (t.min_col + 1)..(t.max_col - 1)

\* the rows the roster of the team occupies in the table after a writing run
RosterRows(t, team_name) == (t.min_row + 1)..(t.min_row + RosterCount(team_name))

\* C13: after a writing run of sync_team_tables, in every table of the team
\* every roster name has a roster row; a roster row whose name was a row of
\* the table before has, column by column, the values that row had (the name
\* column and the rightmost column aside), and a roster row whose name was not
\* in the table has these columns null.
C13_ValuesFollowTheName ==
    [][\A team_name \in SyncTeams :
          (SyncStep(team_name) /\ SyncWrites(team_name)) =>
              \A tn \in TeamTablesPresent(team_name) :
                  /\ \A name \in RosterNames(team_name) :
                        \E r \in RosterRows(tables[tn], team_name) : CellOf(cells', r, tables[tn].min_col) = name
                  /\ \A r \in RosterRows(tables[tn], team_name) :
                        /\ CellOf(cells', r, tables[tn].min_col) \in RosterNames(team_name)
                        /\ \A old \in {RowsNamed(cells, tables[tn], CellOf(cells', r, tables[tn].min_col))} :
                              IF old = {}
                              THEN \A c \in ValueCols(tables[tn]) : CellOf(cells', r, c) = NULL
                              ELSE \E q \in old :
                                      \A c \in ValueCols(tables[tn]) : CellOf(cells', r, c) = CellOf(cells, q, c)]_vars

\* A run moved "al" from the first data row of Billings_OT to the second with
\* its values, and gave "cy", new to the table, a row of nulls.
C13_Witness ==
    /\ ret.op = "sync_team_tables" /\ ret.team_name = "OT"
    /\ ret.pending_change = NoPending /\ ~ret.skipped
    /\ "Billings_OT" \in DOMAIN tables
    /\ CellOf(cells, 2, 2) = "cy" /\ CellOf(cells, 2, 3) = NULL /\ CellOf(cells, 2, 4) = NULL
    /\ CellOf(cells, 3, 2) = "al" /\ CellOf(cells, 3, 3) = "v23" /\ CellOf(cells, 3, 4) = "v24"
    /\ CellOf(cells, 3, 5) = "=AVG3"

------------------------------------------------------------------------------
(* The rightmost column (SpecSync) *)

\* the rows of the sheet
SheetRows == {x[1] : x \in DOMAIN cells}

\* C14: a run of sync_team_tables leaves, in every table of the team, the
\* rightmost column of every row of the sheet with the value and the fill and
\* font it had, in the rows the roster is written to and in the rows cleared.
C14_RightmostColumnUntouched ==
    [][\A team_name \in SyncTeams :
          SyncStep(team_name) =>
              \A tn \in TeamTablesPresent(team_name) :
                  \A r \in SheetRows :
                      /\ CellOf(cells', r, tables[tn].max_col) = CellOf(cells, r, tables[tn].max_col)
                      /\ styles'[<<r, tables[tn].max_col>>] = styles[<<r, tables[tn].max_col>>]]_vars

\* A run for a roster of one rewrote the first data row of Billings_OT with an
\* inactive therapist the table had in another row and cleared the second; the
\* rightmost cells of both rows still hold their formulas, in the default style.
C14_Witness ==
    /\ ret.op = "sync_team_tables" /\ ret.team_name = "OT"
    /\ ret.pending_change = PendingChange("OT", "delete", 1)
    /\ CellOf(cells, 2, 2) = "bo" /\ CellOf(cells, 2, 3) = "v33" /\ styles[<<2, 4>>] = "inactive"
    /\ CellOf(cells, 3, 2) = NULL /\ CellOf(cells, 3, 4) = NULL
    /\ CellOf(cells, 2, 5) = "=AVG2" /\ CellOf(cells, 3, 5) = "=AVG3"
    /\ styles[<<2, 5>>] = "default"

------------------------------------------------------------------------------
(* The authoritative order (SpecSync) *)

\* Senior, CA, Grad, then any other competency
CompetencyRank(c) ==
    IF c = "Senior" THEN 1 ELSE IF c = "CA" THEN 2 ELSE IF c = "Grad" THEN 3 ELSE 4

\* a comes strictly before b: team leaders first, then the competency rank,
\* then the Name ascending
ComesBefore(a, b) ==
    \/ a.IsTeamLeader /\ ~b.IsTeamLeader
    \/ /\ a.IsTeamLeader = b.IsTeamLeader
       /\ CompetencyRank(a.Competency) < CompetencyRank(b.Competency)
    \/ /\ a.IsTeamLeader = b.IsTeamLeader
       /\ CompetencyRank(a.Competency) = CompetencyRank(b.Competency)
       /\ SeqLess(Chars(a.Name), Chars(b.Name))

\* how often the record x occurs in the sequence
Occurrences(seq, x) == Cardinality({i \in 1..Len(seq) : seq[i] = x})

\* the config list with the entries i and i + 1 exchanged
Exchanged(seq, i) ==
    [j \in 1..Len(seq) |-> IF j = i THEN seq[i + 1] ELSE IF j = i + 1 THEN seq[i] ELSE seq[j]]

UniqueNames(seq) == \A i, j \in 1..Len(seq) : seq[i].Name = seq[j].Name => i = j

\* the roster is the config rows of the team, each as often as the config
\* has it, in the order of ComesBefore
RosterInOrder(roster, team_name) ==
    /\ \A x \in TherapistPool :
          Occurrences(roster, x)
              = IF x.Team = team_name THEN Occurrences(therapists, x) ELSE 0
    /\ \A i, j \in 1..Len(roster) : i < j => ~ComesBefore(roster[j], roster[i])

\* C15: get_therapists_for_team returns exactly the config rows of the team,
\* team leaders first, then by competency Senior, CA, Grad, other, then by
\* Name ascending; with unique names the result is the same when two
\* neighbouring config rows are exchanged (every config list is an initial
\* state, so the same for every permutation); and a writing run of
\* sync_team_tables leaves the name column of every table of the team listing
\* the roster in this order from the first data row.
C15_AuthoritativeOrder ==
    /\ [](\A team_name \in SyncTeams :
             \A roster \in {get_therapists_for_team(therapists, team_name)} :
                 /\ RosterInOrder(roster, team_name)
                 /\ UniqueNames(therapists) =>
                       \A i \in 1..(Len(therapists) - 1) :
                           get_therapists_for_team(Exchanged(therapists, i), team_name) = roster)
    /\ [][\A team_name \in SyncTeams :
             (SyncStep(team_name) /\ SyncWrites(team_name)) =>
                 \A roster \in {get_therapists_for_team(therapists, team_name)} :
                     \A tn \in TeamTablesPresent(team_name) :
                         \A i \in 1..Len(roster) :
                             CellOf(cells', tables[tn].min_row + i, tables[tn].min_col) = roster[i].Name]_vars

\* A writing run for the config list (ed, cy) left the name columns of
\* Billings_OT and Compliance_OT as cy (the leader), ed, although the tables
\* listed other names before.
C15_Witness ==
    /\ ret.op = "sync_team_tables" /\ ret.team_name = "OT" /\ ~ret.skipped /\ ret.tables = 2
    /\ ret.added = 4
    /\ Len(therapists) = 2
    /\ therapists[1].Name = "ed" /\ therapists[2].Name = "cy"
    /\ CellOf(cells, 2, 2) = "cy" /\ CellOf(cells, 3, 2) = "ed"
    /\ CellOf(cells, 11, 2) = "cy" /\ CellOf(cells, 12, 2) = "ed"

------------------------------------------------------------------------------
(* sync_fte_table, send_consolidated_email and sync_all_team_tables *)

\* the teams in the order of TEAM_SHEET_MAP.items()
TEAM_SHEET_ORDER == <<"Physio_North", "Physio_South", "OT">>

EMAIL_DAYS == {0, 3}

EMAIL_HOUR_MIN == 9

EMAIL_HOUR_MAX == 12

\* team_table_sync.is_email_window at the weekday and hour of datetime.now()
is_email_window(day_of_week, hour) ==
    day_of_week \in EMAIL_DAYS /\ EMAIL_HOUR_MIN <= hour /\ hour <= EMAIL_HOUR_MAX

\* team_table_sync.send_consolidated_email: TRUE when the mail went out;
\* accepted is the answer of the Graph API (202 or not) to the request
send_consolidated_email(pending_changes, token, day_of_week, hour, accepted) ==
    IF pending_changes = << >> THEN FALSE
    ELSE IF ~is_email_window(day_of_week, hour) THEN FALSE
    ELSE IF token THEN accepted
    ELSE FALSE

\* send_consolidated_email gets as far as "if token: return
\* send_email_graph_api(...)" and takes that branch: a request is posted
send_email_attempted(pending_changes, token, day_of_week, hour) ==
    IF pending_changes = << >> THEN FALSE
    ELSE IF ~is_email_window(day_of_week, hour) THEN FALSE
    ELSE token

\* sort_key of sync_fte_table
fte_sort_key(t) ==
    <<CASE t.Team = "Physio_North" -> 1 [] t.Team = "Physio_South" -> 2
        [] t.Team = "OT" -> 3 [] OTHER -> 99,
      IF t.IsTeamLeader THEN 0 ELSE 1, COMPETENCY_ORDER(t.Competency), Chars(t.Name)>>

FteKeyLess(k1, k2) ==
    \/ k1[1] < k2[1]
    \/ k1[1] = k2[1] /\ KeyLess(<<k1[2], k1[3], k1[4]>>, <<k2[2], k2[3], k2[4]>>)

RECURSIVE InsertByFteKey(_, _)
InsertByFteKey(t, sorted) ==
    IF sorted = << >> THEN <<t>>
    ELSE IF FteKeyLess(fte_sort_key(t), fte_sort_key(Head(sorted))) THEN <<t>> \o sorted
    ELSE <<Head(sorted)>> \o InsertByFteKey(t, Tail(sorted))

\* a variant of the sort that leaves the therapists in the order of the config
SortByFteKey_ConfigOrder(ts) == ts

\* therapists.sort(key=sort_key): stable
RECURSIVE SortByFteKey(_)
SortByFteKey(ts) ==
    IF ts = << >> THEN << >>
    ELSE InsertByFteKey(ts[Len(ts)], SortByFteKey(SubSeq(ts, 1, Len(ts) - 1)))

\* what sync_fte_table returns when it skips
FteSkipped == [rows |-> 0, skipped |-> TRUE]

\* team_table_sync.sync_fte_table(wb, config) on the workbook book: the
\* workbook it leaves and what it returns
sync_fte_table(book) ==
    IF "FTE" \notin DOMAIN book THEN [wb |-> book, ret |-> FteSkipped]
    ELSE IF "FTETable" \notin DOMAIN book["FTE"].tables THEN [wb |-> book, ret |-> FteSkipped]
    ELSE
    LET ws             == book["FTE"]
        t              == ws.tables["FTETable"]
        active         == SortByFteKey(SelectSeq(therapists, LAMBDA x : x.IsActive))
        new_row_count  == Len(active)
        delta          == new_row_count - (t.max_row - t.min_row)
        new_max_row    == t.min_row + new_row_count
        first_data_row == t.min_row + 1
        written        == (first_data_row..new_max_row) \X (t.min_col..(t.min_col + 2))
        cleared        == IF delta < 0
                          THEN ((new_max_row + 1)..t.max_row) \X (t.min_col..(t.min_col + 2))
                          ELSE {}
        newcells       ==
            [x \in DOMAIN ws.cells \cup written \cup cleared |->
                IF x \in written
                THEN LET th == active[x[1] - first_data_row + 1] IN
                     IF x[2] = t.min_col THEN th.Name
                     ELSE IF x[2] = t.min_col + 1 THEN th.FTE
                     ELSE th.Team
                ELSE IF x \in cleared THEN NULL
                ELSE ws.cells[x]]
    IN
    [wb  |-> [sn \in DOMAIN book |->
                 IF sn = "FTE"
                 THEN [cells  |-> newcells,
                       styles |-> ws.styles,
                       tables |-> [tn \in DOMAIN ws.tables |->
                                      IF tn = "FTETable"
                                      THEN Ref(t.min_col, t.min_row, t.max_col, new_max_row)
                                      ELSE ws.tables[tn]]]
                 ELSE book[sn]],
     ret |-> [rows |-> new_row_count, added |-> Max({0, delta}),
              removed |-> IF delta < 0 THEN 0 - delta ELSE 0, skipped |-> FALSE]]

NoTotals == [teams |-> 0, tables |-> 0, added |-> 0, removed |-> 0]

\* the loop "for team_name, sheet_name in TEAM_SHEET_MAP.items()" of
\* sync_all_team_tables: acc = [wb, total_stats, pending_changes]
RECURSIVE SyncTeamSheets(_, _)
SyncTeamSheets(teams, acc) ==
    IF teams = << >> THEN acc
    ELSE IF TEAM_SHEET_MAP(Head(teams)) \notin DOMAIN acc.wb
    THEN SyncTeamSheets(Tail(teams), acc)
    ELSE CHOOSE res \in
            {SyncTeamSheets(Tail(teams),
                [wb |-> [sn \in DOMAIN acc.wb |->
                            IF sn = TEAM_SHEET_MAP(Head(teams))
                            THEN [cells |-> one.cells, styles |-> one.styles,
                                  tables |-> acc.wb[sn].tables]
                            ELSE acc.wb[sn]],
                 total_stats |-> [teams   |-> acc.total_stats.teams + 1,
                                  tables  |-> acc.total_stats.tables + one.ret.tables,
                                  added   |-> acc.total_stats.added + one.ret.added,
                                  removed |-> acc.total_stats.removed + one.ret.removed],
                 pending_changes |-> IF one.ret.pending_change = NoPending
                                     THEN acc.pending_changes
                                     ELSE Append(acc.pending_changes, one.ret.pending_change)]) :
                one \in {sync_team_tables(acc.wb[TEAM_SHEET_MAP(Head(teams))], Head(teams))}} : TRUE

\* what sync_all_team_tables has done once sync_fte_table has returned fte
SyncAllResult(acc, fte) ==
    [wb |-> fte.wb, total_stats |-> acc.total_stats,
     pending_changes |-> acc.pending_changes, fte_stats |-> fte.ret]

\* "fte_stats = sync_fte_table(wb, config)" after the loop over the teams
SyncFteAfterTeams(acc) ==
    CHOOSE out \in {SyncAllResult(acc, fte) : fte \in {sync_fte_table(acc.wb)}} : TRUE

\* team_table_sync.sync_all_team_tables(wb, config, token): the workbook it
\* leaves, the totals it returns, the pending changes it collected, what
\* sync_fte_table returned
sync_all_team_tables(book) ==
    CHOOSE out \in
        {SyncFteAfterTeams(acc) :
            acc \in {SyncTeamSheets(TEAM_SHEET_ORDER,
                        [wb |-> book, total_stats |-> NoTotals, pending_changes |-> << >>])}} : TRUE

\* the weekdays and hours sampled for datetime.now()
ClockDays == {0, 1}

ClockHours == {8, 9, 12, 13}

SyncAllTeamTables ==
    \E out \in {sync_all_team_tables(wb)} :
        \E token \in BOOLEAN, day_of_week \in ClockDays, hour \in ClockHours, accepted \in BOOLEAN :
            /\ wb' = out.wb
            /\ ret' = [op |-> "sync_all_team_tables", total_stats |-> out.total_stats,
                       pending_changes |-> out.pending_changes, fte_stats |-> out.fte_stats,
                       email_sent |-> send_consolidated_email(out.pending_changes, token,
                                                              day_of_week, hour, accepted)]
            /\ UNCHANGED <<cacheVars, configVars, sheetVars, cf>>

------------------------------------------------------------------------------
(* SpecSyncAll: sync_all_team_tables on a workbook of team sheets and FTE *)

\* therapists of the three teams' workbook: nobody is in Physio_South
SyncAllPool ==
    {Therapist("al", "OT", "Senior", TRUE, FALSE),
     Therapist("bo", "OT", "Grad", FALSE, FALSE),
     Therapist("dy", "Physio_North", "Senior", TRUE, TRUE)}

\* the names down the first column of every table of the workbook
SyncAllNames == <<"bo", "al", "dy">>

\* the first table of a team
FirstTable(team_name) == TEAM_TABLES(team_name)[1]

\* A team sheet: its first table with k data rows under a header in row 1
\* (0: the sheet has no table)
TeamSheet(team_name, k) ==
    [cells  |-> IF k > 0 THEN SyncTableCells(SyncAllNames, 1, k) ELSE << >>,
     styles |-> IF k > 0 THEN [x \in DOMAIN SyncTableCells(SyncAllNames, 1, k) |-> "default"]
                ELSE << >>,
     tables |-> IF k > 0 THEN (FirstTable(team_name) :> Ref(2, 1, 5, 1 + k)) ELSE << >>]

\* The FTE sheet: FTETable with k data rows under a header in row 1, columns
\* A..D: Therapist, FTE, Team and a formula column
FteSheet(k) ==
    [cells  |-> [x \in (1..(1 + k)) \X (1..4) |->
                    IF x[1] = 1 THEN <<"Therapist", "FTE", "Team", "Jan">>[x[2]]
                    ELSE IF x[2] = 1 THEN NameAt(SyncAllNames, x[1] - 1)
                    ELSE IF x[2] = 2 THEN "1"
                    ELSE IF x[2] = 3 THEN "OT"
                    ELSE "=F" \o ToString(x[1])],
     styles |-> [x \in (1..(1 + k)) \X (1..4) |-> "default"],
     tables |-> ("FTETable" :> Ref(1, 1, 4, 1 + k))]

\* the workbook with the sheets of the teams whose k is not -1 and, unless
\* fte is -1, the FTE sheet
Workbook(north, south, ot, fte) ==
    LET k(team_name) == CASE team_name = "Physio_North" -> north
                          [] team_name = "Physio_South" -> south
                          [] OTHER -> ot
        teams == {tm \in {"Physio_North", "Physio_South", "OT"} : k(tm) >= 0}
        names == {TEAM_SHEET_MAP(tm) : tm \in teams} \cup (IF fte >= 0 THEN {"FTE"} ELSE {})
    IN  [sn \in names |->
            IF sn = "FTE" THEN FteSheet(fte)
            ELSE LET tm == CHOOSE x \in teams : TEAM_SHEET_MAP(x) = sn IN TeamSheet(tm, k(tm))]

InitSyncAll ==
    /\ InitCache
    /\ therapists \in SeqsUpTo(SyncAllPool, MaxRoster)
    /\ competency_history = << >>
    /\ team_ave_thresholds = << >>
    /\ thresholds = [c \in {"Grad", "CA", "Senior"} |-> Bundle(3500, 4000, 6000, 6000)]
    /\ ceased_thresholds = LoadedCeasedDefaults
    /\ rating_thresholds = LoadedRatingDefaults
    /\ cells = << >>
    /\ styles = NoStyles
    /\ tables = << >>
    /\ cf = << >>
    /\ \E north \in -1..MaxTableRows, south \in {-1, 1}, ot \in -1..MaxTableRows,
          fte \in {-1, 1, MaxTableRows} :
          wb = Workbook(north, south, ot, fte)
    /\ ret = [op |-> "none"]

NextSyncAll == SyncAllTeamTables

SpecSyncAll == InitSyncAll /\ [][NextSyncAll]_vars

------------------------------------------------------------------------------
(* One team does not stop the others (SpecSyncAll) *)

AllTeams == {TEAM_SHEET_ORDER[i] : i \in 1..Len(TEAM_SHEET_ORDER)}

SheetPresent(team_name) == TEAM_SHEET_MAP(team_name) \in DOMAIN wb

FirstTablePresent(team_name) ==
    /\ SheetPresent(team_name)
    /\ FirstTable(team_name) \in DOMAIN wb[TEAM_SHEET_MAP(team_name)].tables

\* the roster count of the team less the data rows of its first table
RowDelta(team_name) ==
    RosterCount(team_name)
        - (wb[TEAM_SHEET_MAP(team_name)].tables[FirstTable(team_name)].max_row
           - wb[TEAM_SHEET_MAP(team_name)].tables[FirstTable(team_name)].min_row)

\* the pending changes of the list that are for the team
ChangesFor(pending_changes, team_name) ==
    {i \in 1..Len(pending_changes) : pending_changes[i].team_name = team_name}

\* C18 as stated: a run of sync_all_team_tables processes every team whose
\* sheet exists, attempts the FTE sync afterwards (skipped only without the
\* FTE sheet), and collects at most one pending change per team: one for
\* exactly the teams whose first table exists and whose row delta is not 0.
C18_Original ==
    [][ret'.op = "sync_all_team_tables" =>
          /\ ret'.total_stats.teams = Cardinality({tm \in AllTeams : SheetPresent(tm)})
          /\ ret'.fte_stats.skipped = ("FTE" \notin DOMAIN wb)
          /\ \A tm \in AllTeams :
                /\ Cardinality(ChangesFor(ret'.pending_changes, tm)) <= 1
                /\ (ChangesFor(ret'.pending_changes, tm) # {})
                      = (FirstTablePresent(tm) /\ RowDelta(tm) # 0)]_vars

------------------------------------------------------------------------------
(* The KPI dashboard loader: kpi_dashboard_loader.py and its copy in *)
(* function_app.py                                                    *)

\* the string of a character sequence
RECURSIVE Str(_)
Str(cs) == IF cs = << >> THEN "" ELSE Head(cs) \o Str(Tail(cs))

\* function_app.MONTH_COLUMNS
MONTH_COLUMNS == MonthNames

\* kpi_dashboard_loader.MONTH_COLUMNS: with 'Average'
LOADER_MONTH_COLUMNS == MonthNames \o <<"Average">>

\* function_app.SHEET_CONFIG: per sheet the team and the (table, KPI) pairs
SHEET_CONFIG ==
    << [sheet_name |-> "KPI Dashboard North", team_name |-> "Physio_North",
        tables |-> << <<"Billings_North", "BillingsKPI">>, <<"Ceased_North", "Ceased Services">>,
                      <<"Documentation_North", "Documentation">>, <<"Admin_North", "Admin">>,
                      <<"Attitude_North", "Attitude">> >>],
       [sheet_name |-> "KPI Dashboard South", team_name |-> "Physio_South",
        tables |-> << <<"Billings_South", "BillingsKPI">>, <<"Ceased_South", "Ceased Services">>,
                      <<"Documentation_South", "Documentation">>, <<"Admin_South", "Admin">>,
                      <<"Attitude_South", "Attitude">> >>],
       [sheet_name |-> "KPI Dashboard OT", team_name |-> "OT",
        tables |-> << <<"Billings_OT", "BillingsKPI">>, <<"Compliance_OT", "Compliance">>,
                      <<"ReferrerEng_OT", "Referrer Engagement">>, <<"Capacity_OT", "Capacity">>,
                      <<"Attitude_OT", "Attitude">> >>] >>

\* kpi_dashboard_loader.SHEET_CONFIG: the team sheets with their Average
\* tables, and the MMP Dashboard
LOADER_SHEET_CONFIG ==
    << [sheet_name |-> "KPI Dashboard North", team_name |-> "Physio_North",
        tables |-> SHEET_CONFIG[1].tables \o << <<"Average_North", "Team Average">> >>],
       [sheet_name |-> "KPI Dashboard South", team_name |-> "Physio_South",
        tables |-> SHEET_CONFIG[2].tables \o << <<"Average_South", "Team Average">> >>],
       [sheet_name |-> "KPI Dashboard OT", team_name |-> "OT",
        tables |-> SHEET_CONFIG[3].tables \o << <<"Average_OT", "Team Average">> >>],
       [sheet_name |-> "MMP Dashboard", team_name |-> "MMP",
        tables |-> << <<"Average_North14", "Team Average (North)">>,
                      <<"Average_South10", "Team Average (South)">>,
                      <<"Average_OT20", "Team Average (OT)">> >>] >>

\* read_table_data(ws, table_name, kpi_column_name) with the month list
\* months: {} for a table the sheet does not have; else, for the stripped name
\* of every row that has a name, the values under the headers that are in the
\* month list (a later column with the same header, and a later row with the
\* same name, replace the earlier)
read_table_data(ws, table_name, months) ==
    IF table_name \notin DOMAIN ws.tables THEN << >>
    ELSE
    LET t             == ws.tables[table_name]
        in_list(h)    == \E i \in 1..Len(months) : months[i] = h
        month_indices ==
            [h \in {CellOf(ws.cells, t.min_row, c) : c \in
                        {d \in t.min_col..t.max_col : in_list(CellOf(ws.cells, t.min_row, d))}} |->
                Max({c \in t.min_col..t.max_col : CellOf(ws.cells, t.min_row, c) = h})]
        rows          == {r \in (t.min_row + 1)..t.max_row : Truthy(CellOf(ws.cells, r, t.min_col))}
        name_of(r)    == Str(Strip(CellOf(ws.cells, r, t.min_col)))
    IN  [n \in {name_of(r) : r \in rows} |->
            [m \in DOMAIN month_indices |->
                CellOf(ws.cells, Max({r \in rows : name_of(r) = n}), month_indices[m])]]

\* a variant of KpiData without the KPIs whose table the sheet does not have
KpiData_PresentOnly(ws, table_config, months) ==
    [kpi \in {table_config[i][2] : i \in {j \in 1..Len(table_config) :
                                            table_config[j][1] \in DOMAIN ws.tables}} |->
        read_table_data(ws,
            table_config[Max({i \in 1..Len(table_config) : table_config[i][2] = kpi})][1],
            months)]

\* kpi_data of process_dashboard_sheet: KPI column name -> table data
KpiData(ws, table_config, months) ==
    [kpi \in {table_config[i][2] : i \in 1..Len(table_config)} |->
        read_table_data(ws,
            table_config[Max({i \in 1..Len(table_config) : table_config[i][2] = kpi})][1],
            months)]

\* process_dashboard_sheet(ws, team_name, table_config) with the month list
\* months: name -> month -> KPI -> value
process_dashboard_sheet(ws, table_config, months) ==
    LET kpi_data       == KpiData(ws, table_config, months)
        all_therapists == UNION {DOMAIN kpi_data[kpi] : kpi \in DOMAIN kpi_data}
    IN  [n \in all_therapists |->
            [m \in {months[i] : i \in 1..Len(months)} |->
                [kpi \in DOMAIN kpi_data |->
                    IF n \in DOMAIN kpi_data[kpi] /\ m \in DOMAIN kpi_data[kpi][n]
                    THEN kpi_data[kpi][n][m]
                    ELSE NULL]]]

\* the record of transform_to_monthly_records for a name and a month
MonthlyRecord(name, month, kpi_values) ==
    kpi_values @@ ("Name" :> name) @@ ("Month" :> month)

\* transform_to_monthly_records(therapist_data, team_name): the names in the
\* order names (the iteration order of the dict built from a set), under each
\* name the months in the order of the month list
RECURSIVE transform_to_monthly_records(_, _, _)
transform_to_monthly_records(therapist_data, names, months) ==
    IF names = << >> THEN << >>
    ELSE [i \in 1..Len(months) |->
             MonthlyRecord(Head(names), months[i], therapist_data[Head(names)][months[i]])]
         \o transform_to_monthly_records(therapist_data, Tail(names), months)

\* an enumeration of a set
RECURSIVE SetToSeq(_)
SetToSeq(S) ==
    IF S = {} THEN << >>
    ELSE LET x == CHOOSE y \in S : TRUE IN <<x>> \o SetToSeq(S \ {x})

Reversed(seq) == [i \in 1..Len(seq) |-> seq[Len(seq) + 1 - i]]

\* load_kpi_dashboard_data(wb) with a sheet configuration and a month list;
\* reversed picks one of two iteration orders of the set of names
load_kpi_dashboard_data(book, sheet_config, months, reversed) ==
    [team_name \in {sheet_config[i].team_name : i \in 1..Len(sheet_config)} |->
        LET cfg == sheet_config[Max({i \in 1..Len(sheet_config) :
                                        sheet_config[i].team_name = team_name})]
        IN  IF cfg.sheet_name \notin DOMAIN book THEN << >>
            ELSE CHOOSE recs \in
                    {transform_to_monthly_records(td,
                        IF reversed THEN Reversed(SetToSeq(DOMAIN td)) ELSE SetToSeq(DOMAIN td),
                        months) :
                        td \in {process_dashboard_sheet(book[cfg.sheet_name], cfg.tables, months)}} : TRUE]

\* kpi_dashboard_loader.load_kpi_dashboard_data(wb)
LoaderLoadKpiDashboardData ==
    \E reversed \in BOOLEAN :
        /\ ret' = [op |-> "kpi_dashboard_loader.load_kpi_dashboard_data",
                   master_data |-> load_kpi_dashboard_data(wb, LOADER_SHEET_CONFIG,
                                                           LOADER_MONTH_COLUMNS, reversed)]
        /\ UNCHANGED <<cacheVars, configVars, sheetVars, cf, wb>>

\* function_app.load_kpi_dashboard_data(wb)
LoadKpiDashboardData ==
    \E reversed \in BOOLEAN :
        /\ ret' = [op |-> "function_app.load_kpi_dashboard_data",
                   master_data |-> load_kpi_dashboard_data(wb, SHEET_CONFIG, MONTH_COLUMNS,
                                                           reversed)]
        /\ UNCHANGED <<cacheVars, configVars, sheetVars, cf, wb>>

------------------------------------------------------------------------------
(* SpecLoad: the loaders on a Team Leader workbook *)

\* the headers of a table of the workbook: Name, two months and Average, or
\* the two months the other way round
LoadHeaders == {<<"Name", "Jan", "Feb", "Average">>, <<"Name", "Feb", "Jan", "Average">>}

\* The sheet KPI Dashboard OT: Billings_OT (k1 rows) and Compliance_OT (k2
\* rows) as in SpecSync, under the header hdr; blank empties the cell under the
\* second header of every first data row
LoadOTSheet(names, k1, k2, hdr, blank) ==
    [cells  |-> [x \in SyncGrid |->
                    IF x[1] \in {1, 10} /\ SyncSheetCells(names, k1, k2)[x] # NULL
                    THEN hdr[x[2] - 1]
                    ELSE IF blank /\ x[1] \in {2, 11} /\ x[2] = 3 THEN NULL
                    ELSE SyncSheetCells(names, k1, k2)[x]],
     styles |-> [x \in SyncGrid |-> "default"],
     tables |-> SyncSheetTables(k1, k2)]

\* the Team Leader workbook: KPI Dashboard OT unless ot is FALSE, and KPI
\* Dashboard North with Billings_North of north rows unless north is -1
LoadWorkbook(ot, names, k1, k2, hdr, blank, north) ==
    (IF ot THEN ("KPI Dashboard OT" :> LoadOTSheet(names, k1, k2, hdr, blank)) ELSE << >>)
    @@ (IF north >= 0 THEN ("KPI Dashboard North" :> TeamSheet("Physio_North", north))
        ELSE << >>)

InitLoad ==
    /\ InitCache
    /\ InitStaticConfig
    /\ competency_history = << >>
    /\ team_ave_thresholds = << >>
    /\ cells = << >>
    /\ styles = NoStyles
    /\ tables = << >>
    /\ cf = << >>
    /\ \E ot \in BOOLEAN, names \in NameLists, k1 \in 0..MaxTableRows, k2 \in 0..MaxTableRows,
          hdr \in LoadHeaders, blank \in BOOLEAN, north \in {-1, 0, 1} :
          wb = LoadWorkbook(ot, names, k1, k2, hdr, blank, north)
    /\ ret = [op |-> "none"]

NextLoad == LoaderLoadKpiDashboardData \/ LoadKpiDashboardData

SpecLoad == InitLoad /\ [][NextLoad]_vars

------------------------------------------------------------------------------
(* What the loaders emit (SpecLoad) *)

LoaderOps == {"kpi_dashboard_loader.load_kpi_dashboard_data",
              "function_app.load_kpi_dashboard_data"}

\* the sheet configuration and the month list of the loader that ran
ConfigOf(op) ==
    IF op = "function_app.load_kpi_dashboard_data" THEN SHEET_CONFIG ELSE LOADER_SHEET_CONFIG

MonthsOf(op) ==
    IF op = "function_app.load_kpi_dashboard_data" THEN MONTH_COLUMNS ELSE LOADER_MONTH_COLUMNS

\* the data rows of a table of a sheet whose trimmed name is the name
NamedRows(ws, table_name, name) ==
    IF table_name \notin DOMAIN ws.tables THEN {}
    ELSE {r \in (ws.tables[table_name].min_row + 1)..ws.tables[table_name].max_row :
             /\ Truthy(CellOf(ws.cells, r, ws.tables[table_name].min_col))
             /\ Strip(CellOf(ws.cells, r, ws.tables[table_name].min_col)) = Chars(name)}

\* the names (trimmed) in the tables cfg lists that the sheet has
NamesOn(ws, cfg) ==
    {Str(Strip(CellOf(ws.cells, r, ws.tables[tn].min_col))) :
        <<tn, r>> \in {y \in {cfg.tables[i][1] : i \in 1..Len(cfg.tables)} \X (1..20) :
                          /\ y[1] \in DOMAIN ws.tables
                          /\ y[2] \in (ws.tables[y[1]].min_row + 1)..ws.tables[y[1]].max_row
                          /\ Truthy(CellOf(ws.cells, y[2], ws.tables[y[1]].min_col))}}

\* the values a table holds for the name under the header month
ValuesUnder(ws, table_name, name, month) ==
    {CellOf(ws.cells, r, c) :
        <<r, c>> \in {y \in NamedRows(ws, table_name, name)
                              \X (IF table_name \in DOMAIN ws.tables
                                  THEN ws.tables[table_name].min_col..ws.tables[table_name].max_col
                                  ELSE {}) :
                         CellOf(ws.cells, ws.tables[table_name].min_row, y[2]) = month}}

\* C16: a loader's result has, for every team sheet of its configuration that
\* the workbook has, exactly one record for every name in one of the team's
\* tables and every month of its month list, and no other record; every
\* record has Name, Month and every KPI key configured for the team, the KPI's
\* value being null when the sheet lacks the table, the table lacks the name,
\* or the name's cells under the month are blank, and a value of the name's
\* cells under the month otherwise; a sheet the workbook lacks gives no record.
C16_LoaderCompleteness ==
    ret.op \in LoaderOps =>
        \A i \in 1..Len(ConfigOf(ret.op)) :
            \A cfg \in {ConfigOf(ret.op)[i]} :
            \A recs \in {ret.master_data[cfg.team_name]} :
                IF cfg.sheet_name \notin DOMAIN wb THEN recs = << >>
                ELSE
                /\ \A name \in NamesOn(wb[cfg.sheet_name], cfg) :
                      \A m \in 1..Len(MonthsOf(ret.op)) :
                          Cardinality({j \in 1..Len(recs) :
                              recs[j]["Name"] = name /\ recs[j]["Month"] = MonthsOf(ret.op)[m]}) = 1
                /\ Len(recs) = Cardinality(NamesOn(wb[cfg.sheet_name], cfg)) * Len(MonthsOf(ret.op))
                /\ \A j \in 1..Len(recs) :
                      /\ DOMAIN recs[j]
                            = {"Name", "Month"} \cup {cfg.tables[t][2] : t \in 1..Len(cfg.tables)}
                      /\ \A t \in 1..Len(cfg.tables) :
                            \A vals \in {ValuesUnder(wb[cfg.sheet_name], cfg.tables[t][1],
                                                     recs[j]["Name"], recs[j]["Month"])} :
                                IF vals \subseteq {NULL}
                                THEN recs[j][cfg.tables[t][2]] = NULL
                                ELSE recs[j][cfg.tables[t][2]] \in vals

\* kpi_dashboard_loader's loader ran on a workbook without KPI Dashboard
\* North whose OT sheet has Billings_OT with the rows bo and "Al " (bo's cell
\* under the second header blank) and no Compliance_OT: 26 records for OT, none
\* for Physio_North, and the record (bo, Jan) has a null BillingsKPI under the
\* header (Name, Jan, Feb, Average), a value for Feb, and a null Compliance.
C16_Witness ==
    /\ ret.op = "kpi_dashboard_loader.load_kpi_dashboard_data"
    /\ "KPI Dashboard North" \notin DOMAIN wb
    /\ ret.master_data["Physio_North"] = << >>
    /\ Len(ret.master_data["OT"]) = 26
    /\ \E j, k \in 1..Len(ret.master_data["OT"]) :
          /\ ret.master_data["OT"][j]["Name"] = "bo"
          /\ ret.master_data["OT"][j]["Month"] = "Jan"
          /\ ret.master_data["OT"][j]["BillingsKPI"] = NULL
          /\ ret.master_data["OT"][j]["Compliance"] = NULL
          /\ ret.master_data["OT"][k]["Name"] = "Al"
          /\ ret.master_data["OT"][k]["Month"] = "Feb"
          /\ ret.master_data["OT"][k]["BillingsKPI"] = "v34"
          /\ ret.master_data["OT"][k]["Team Average"] = NULL

\* C17 as stated: no loader emits a record whose Month is "Average"; the
\* Month of every record is one of the 12 calendar month tokens.
C17_Original ==
    ret.op \in LoaderOps =>
        \A team_name \in DOMAIN ret.master_data :
            \A j \in 1..Len(ret.master_data[team_name]) :
                /\ ret.master_data[team_name][j]["Month"] # "Average"
                /\ \E m \in 1..12 : ret.master_data[team_name][j]["Month"] = MonthNames[m]

------------------------------------------------------------------------------
(* The individual sheets: individual_sheet_v2.py *)

\* individual_sheet_v2.MONTH_COLUMNS.get(month): the column of a month name,
\* 0 for a name the dict does not have
INDIVIDUAL_MONTH_COLUMNS(month) ==
    CASE month \in {"Jan", "January"}           -> 3
      [] month \in {"Feb", "February"}          -> 4
      [] month \in {"Mar", "March"}             -> 5
      [] month \in {"Apr", "April"}             -> 6
      [] month = "May"                          -> 7
      [] month \in {"Jun", "June"}              -> 8
      [] month \in {"Jul", "July"}              -> 9
      [] month \in {"Aug", "August"}            -> 10
      [] month \in {"Sep", "Sept", "September"} -> 11
      [] month \in {"Oct", "October"}           -> 12
      [] month \in {"Nov", "November"}          -> 13
      [] month \in {"Dec", "December"}          -> 14
      [] OTHER                                  -> 0

KPI_ROWS_PHYSIO ==
    ("BillingsKPI" :> 4) @@ ("Ceased Services" :> 5) @@ ("Documentation" :> 6)
    @@ ("Admin" :> 7) @@ ("Attitude" :> 8)

KPI_ROWS_OT ==
    ("BillingsKPI" :> 4) @@ ("Compliance" :> 5) @@ ("Referrer Engagement" :> 6)
    @@ ("Capacity" :> 7) @@ ("Attitude" :> 8)

\* THRESHOLD_ROWS['billings']
THRESHOLD_ROWS == ("Grad" :> 12) @@ ("CA" :> 13) @@ ("Senior" :> 14)

\* the four billing rules of apply_billing_formatting_with_history on one range
BillingHistoryRules(rng, b) ==
    << Rule(rng, "blank", 0, 0, "white"),
       Rule(rng, "greaterThan", b.blue_above, 0, "blue"),
       Rule(rng, "greaterThanOrEqual", b.green_min, 0, "green"),
       Rule(rng, "lessThan", b.green_min, 0, "red") >>

\* the loop over comp_ranges of apply_billing_formatting_with_history: a range
\* whose competency has no thresholds is passed over
RECURSIVE HistoryRangeRules(_, _)
HistoryRangeRules(ranges, kpi_row) ==
    IF ranges = << >> THEN << >>
    ELSE (IF ThresholdsGet(Head(ranges)[1]) = NoBundle THEN << >>
          ELSE BillingHistoryRules(<<kpi_row, Head(ranges)[2], Head(ranges)[3]>>,
                                   ThresholdsGet(Head(ranges)[1])))
         \o HistoryRangeRules(Tail(ranges), kpi_row)

\* current_comp of apply_billing_formatting_with_history: the competency of the
\* first therapist of the config with the name, None without one
current_comp(therapist_name) ==
    LET idx == {i \in 1..Len(therapists) :
                    StripLower(therapists[i].Name) = StripLower(therapist_name)}
    IN  IF idx = {} THEN NULL ELSE therapists[Min(idx)].Competency

\* individual_sheet_v2.apply_billing_formatting_with_history: the rules it adds
apply_billing_formatting_with_history(therapist_name, yr, kpi_row) ==
    LET comp_ranges == get_competency_ranges_v2(therapist_name, yr, competency_history) IN
    IF comp_ranges # NoRanges THEN HistoryRangeRules(comp_ranges, kpi_row)
    ELSE IF ThresholdsGet(current_comp(therapist_name)) = NoBundle THEN << >>
    ELSE BillingHistoryRules(<<kpi_row, 3, 15>>, ThresholdsGet(current_comp(therapist_name)))

\* f"{x*100:.1f}%" of a fraction given in thousandths
Percent(x) == ToString(x \div 10) \o "." \o ToString(x % 10) \o "%"

\* the outcomes of resolve_file_path and create_from_template
FileOutcomes == {"found", "created", "create_failed", "still_missing"}

\* kpi_records of update_individual_sheet_v2: the records of the therapist's
\* team whose Name is the therapist's name
kpi_records(master_data, team_id, name) ==
    IF team_id \notin DOMAIN master_data THEN << >>
    ELSE SelectSeq(master_data[team_id], LAMBDA r : r.Name = name)

\* the write loop of update_individual_sheet_v2: a record whose month has a
\* column writes its values that are not None, a later record over an earlier
RECURSIVE WriteKpiData(_, _, _)
WriteKpiData(cs, records, kpi_rows) ==
    IF records = << >> THEN cs
    ELSE LET record == Head(records)
             col    == INDIVIDUAL_MONTH_COLUMNS(record.Month)
             written == {kpi \in DOMAIN kpi_rows :
                            kpi \in DOMAIN record /\ record[kpi] # NULL}
         IN  WriteKpiData(
                 IF col = 0 THEN cs
                 ELSE [x \in {<<kpi_rows[kpi], col>> : kpi \in written} |->
                          record[CHOOSE kpi \in written : kpi_rows[kpi] = x[1]]] @@ cs,
                 Tail(records), kpi_rows)

\* the cells of the Dashboard sheet of an individual file: rows 2..19, B..O
IndividualGrid == (2..19) \X (2..15)

\* the Dashboard sheet of the template: no values, no rules
TemplateCells == [x \in IndividualGrid |-> NULL]

DefaultStyle == [alignment |-> "general", font |-> "default", number_format |-> "General"]

TemplateStyles == [x \in IndividualGrid |-> DefaultStyle]

\* the threshold display rows 12..14, C..E, of the competencies that have
\* thresholds (numbers in thousandths)
BillingDisplay ==
    LET levels == {c \in DOMAIN THRESHOLD_ROWS : ThresholdsGet(c) # NoBundle}
        level(row) == CHOOSE c \in levels : THRESHOLD_ROWS[c] = row
    IN  [x \in {THRESHOLD_ROWS[c] : c \in levels} \X (3..5) |->
            CASE x[2] = 3 -> "<" \o ToString(ThresholdsGet(level(x[1])).green_min)
              [] x[2] = 4 -> ToString(ThresholdsGet(level(x[1])).green_min) \o "-"
                             \o ToString(ThresholdsGet(level(x[1])).green_max)
              [] OTHER    -> ">" \o ToString(ThresholdsGet(level(x[1])).blue_above)]

\* the ceased display of a Physio sheet: rows 17..19 of column 2
CeasedDisplay ==
    LET blue_below == IF ceased_thresholds = NoBundle THEN 25 ELSE ceased_thresholds.blue_below
        red_above  == IF ceased_thresholds = NoBundle THEN 40 ELSE ceased_thresholds.red_above
    IN  (<<17, 2>> :> "<" \o Percent(blue_below))
        @@ (<<18, 2>> :> Str(<<ToString(blue_below \div 10), ".", ToString(blue_below % 10)>>)
                         \o "-" \o Percent(red_above))
        @@ (<<19, 2>> :> ">" \o Percent(red_above))

\* the styles update_individual_sheet_v2 sets: rows 4..8 of C..O centred in a
\* black font; the number formats of the Average column and of the ceased row
IndividualStyles(st, team_type) ==
    [x \in DOMAIN st |->
        IF x[1] \in 4..8 /\ x[2] \in 3..15
        THEN [alignment |-> "center", font |-> "000000",
              number_format |->
                  IF team_type = "Physio" /\ x[1] = 5 THEN "0.0%"
                  ELSE IF x[2] = 15 THEN "0.00"
                  ELSE st[x].number_format]
        ELSE st[x]]

\* the conditional formatting update_individual_sheet_v2 leaves on the sheet
IndividualRules(name, team_type, yr) ==
    IF team_type = "OT"
    THEN apply_billing_formatting_with_history(name, yr, 4)
         \o apply_rating_scale_formatting_v2(<<5, 6, 7, 8>>, rating_thresholds)
    ELSE apply_billing_formatting_with_history(name, yr, 4)
         \o apply_ceased_services_formatting_v2(ceased_thresholds, 5)
         \o apply_rating_scale_formatting_v2(<<6, 7, 8>>, rating_thresholds)

\* individual_sheet_v2.update_individual_sheet_v2 on the Dashboard sheet sheet
\* = [cells, styles, cf] of the therapist's file: the sheet it uploads and its
\* return value.  outcome is what resolve_file_path and create_from_template
\* do (a created file is a copy of the template), has_dashboard whether the
\* file has a sheet named Dashboard.
update_individual_sheet_v2(therapist, master_data, yr, sheet, outcome, has_dashboard) ==
    IF outcome \in {"create_failed", "still_missing"} \/ ~has_dashboard
    THEN [sheet |-> sheet, result |-> FALSE]
    ELSE
    LET name       == therapist.Name
        team_id    == therapist.Team
        team_type  == IF team_id = "OT" THEN "OT" ELSE "Physio"
        competency == therapist.Competency
        kpi_rows   == IF team_type = "OT" THEN KPI_ROWS_OT ELSE KPI_ROWS_PHYSIO
        ws         == IF outcome = "created"
                      THEN [cells |-> TemplateCells, styles |-> TemplateStyles, cf |-> << >>]
                      ELSE sheet
        data       == WriteKpiData(ws.cells, kpi_records(master_data, team_id, name), kpi_rows)
        average    == IF team_type = "Physio"
                      THEN (<<5, 15>> :> "=IFERROR(AVERAGEIF($C5:$N5,\"<>\"),\"\")") @@ data
                      ELSE data
        info       == (<<2, 2>> :> name) @@ (<<2, 4>> :> competency) @@ average
        display    == (IF team_type = "Physio" THEN CeasedDisplay ELSE << >>)
                      @@ BillingDisplay @@ info
    IN  [sheet  |-> [cells  |-> display,
                     styles |-> IndividualStyles(ws.styles, team_type),
                     cf     |-> IndividualRules(name, team_type, yr)],
         result |-> TRUE]

\* update_individual_sheet_v2 for the first therapist of the config, with the
\* master data loaded from the Team Leader workbook
UpdateIndividualSheetV2 ==
    \E master_data \in {load_kpi_dashboard_data(wb, SHEET_CONFIG, MONTH_COLUMNS, FALSE)} :
    \E outcome \in FileOutcomes, has_dashboard \in BOOLEAN, yr \in {WorkbookYear, NoYear} :
    \E out \in {update_individual_sheet_v2(therapists[1], master_data, yr,
                    [cells |-> cells, styles |-> styles, cf |-> cf],
                    outcome, has_dashboard)} :
        /\ cells' = out.sheet.cells
        /\ styles' = out.sheet.styles
        /\ cf' = out.sheet.cf
        /\ ret' = [op |-> "update_individual_sheet_v2", therapist |-> therapists[1],
                   master_data |-> master_data, year |-> yr, result |-> out.result]
        /\ UNCHANGED <<cacheVars, configVars, tables, wb>>

------------------------------------------------------------------------------
(* SpecIndividual: update_individual_sheet_v2 on the file of one therapist *)

\* the configs: the therapist of the file first
IndividualConfigs ==
    {<<Therapist("al", "OT", "Senior", TRUE, FALSE)>>,
     <<Therapist("dy", "Physio_North", "Senior", TRUE, FALSE)>>,
     <<Therapist("Al", "OT", "Grad", TRUE, FALSE), Therapist("al", "OT", "Senior", TRUE, FALSE)>>,
     <<Therapist("ed", "OT", "Lead", TRUE, FALSE)>>}

\* a Dashboard sheet that an earlier run filled: values under Jan and Feb in
\* the rows 4..8
PriorCells ==
    [x \in IndividualGrid |->
        IF x[1] \in 4..8 /\ x[2] \in 3..4 THEN "p" \o ToString(10 * x[1] + x[2]) ELSE NULL]

\* the Team Leader workbooks: both team sheets, with the OT tables over the
\* name lists (Compliance_OT present or not, the Jan cell of the first row
\* blank or not), or only one of the two sheets
IndividualWorkbooks ==
    {LoadWorkbook(TRUE, names, 2, v[1], <<"Name", "Jan", "Feb", "Average">>, v[2], 3) :
        names \in NameLists, v \in {<<2, FALSE>>, <<2, TRUE>>, <<0, FALSE>>}}
    \cup {LoadWorkbook(FALSE, <<"al", "bo", "cy">>, 2, 2, <<"Name", "Jan", "Feb", "Average">>,
                        FALSE, 3),
          LoadWorkbook(TRUE, <<"al", "bo", "cy">>, 2, 2, <<"Name", "Jan", "Feb", "Average">>,
                       FALSE, -1)}

\* the competency history: empty, or one row of Al from the middle of April
IndividualHistories ==
    {<< >>, <<[Name |-> "Al ", EffectiveDate |-> Date(2026, 4, 15), Competency |-> "CA"]>>}

InitIndividual ==
    /\ InitCache
    /\ therapists \in IndividualConfigs
    /\ competency_history \in IndividualHistories
    /\ team_ave_thresholds = << >>
    /\ thresholds = [c \in {"Grad", "CA", "Senior"} |->
                        CASE c = "Grad"   -> Bundle(2500, 3000, 4500, 4500)
                          [] c = "CA"     -> Bundle(3500, 4000, 6000, 6000)
                          [] c = "Senior" -> Bundle(4500, 5000, 7000, 7000)]
    /\ ceased_thresholds = LoadedCeasedDefaults
    /\ rating_thresholds = LoadedRatingDefaults
    /\ cells \in {TemplateCells, PriorCells}
    /\ styles = TemplateStyles
    /\ tables = << >>
    /\ cf = << >>
    /\ wb \in IndividualWorkbooks
    /\ ret = [op |-> "none"]

NextIndividual == UpdateIndividualSheetV2

SpecIndividual == InitIndividual /\ [][NextIndividual]_vars

------------------------------------------------------------------------------
(* The individual sheet after an update (SpecIndividual) *)

\* the records of the loaded master data for the therapist of the last run
LoadedRecords ==
    kpi_records(ret.master_data, ret.therapist.Team, ret.therapist.Name)

\* the KPI rows of the team type of the therapist of the last run
KpiRowsOf(therapist) == IF therapist.Team = "OT" THEN KPI_ROWS_OT ELSE KPI_ROWS_PHYSIO

\* C19: after update_individual_sheet_v2 has returned True, for every KPI of
\* the therapist's team type and every month Jan..Dec the cell of the
\* individual sheet for (KPI, month) holds the value of the therapist's loaded
\* Team Leader record for that month, and is blank where that value is null.
C19_Original ==
    (ret.op = "update_individual_sheet_v2" /\ ret.result) =>
        \A i \in 1..Len(LoadedRecords) :
            \A kpi \in DOMAIN KpiRowsOf(ret.therapist) :
                LET record == LoadedRecords[i] IN
                (record.Month \in {MonthNames[m] : m \in 1..12} /\ kpi \in DOMAIN record) =>
                    CellOf(cells, KpiRowsOf(ret.therapist)[kpi],
                           INDIVIDUAL_MONTH_COLUMNS(record.Month)) = record[kpi]

------------------------------------------------------------------------------
(* How the resolvers select the records of a subject (SpecResolve) *)

\* the history rows of the last call's subject that carry a date, in the order
\* of the sheet and under the subject's name as the call spelled it
SelectedRecords ==
    IF ret.op \in TherapistResolverOps
    THEN [i \in 1..Cardinality(SubjectRows) |->
            [competency_history[CHOOSE k \in SubjectRows :
                Cardinality({j \in SubjectRows : j <= k}) = i] EXCEPT !.Name = ret.subject]]
    ELSE [i \in 1..Cardinality(SubjectRows) |->
            [team_ave_thresholds[CHOOSE k \in SubjectRows :
                Cardinality({j \in SubjectRows : j <= k}) = i] EXCEPT !.Team = ret.subject]]

\* C20: both range resolvers select the history records of a subject without
\* regard to letter case and surrounding blanks, and ignore the records
\* without an EffectiveDate: what a resolver returns is what it returns on
\* just those records, spelled as the subject.
C20_Original ==
    (ret.op \in ResolverOps) =>
        ret.ranges =
            CASE ret.op = "get_competency_ranges_for_therapist" ->
                    get_competency_ranges_for_therapist(ret.subject, ret.year, ret.data_cols,
                                                        SelectedRecords)
              [] ret.op = "get_competency_ranges_v2" ->
                    get_competency_ranges_v2(ret.subject, ret.year, SelectedRecords)
              [] OTHER ->
                    get_team_ave_threshold_ranges(ret.subject, ret.year, ret.data_cols,
                                                  SelectedRecords)
------------------------------------------------------------------------------
(* The grouping key of the team resolver (SpecResolve) *)

\* the records the team resolver kept for the last call, sorted by date
TeamSorted == SortByDate(TeamRecords(team_ave_thresholds, ret.subject))

\* the months of the last call's header, in calendar order, that have a record
\* in effect on their 15th, each with the bundle of that record and its column
TeamMonths ==
    LET sorted == TeamSorted
        months == sorted_months(ret.data_cols)
        at(m)  == ApplicableIndex(sorted, Date(ret.year, MONTH_TO_NUM(m), 15))
        kept   == SelectSeq(months, LAMBDA m : at(m) # 0)
    IN  [i \in 1..Len(kept) |->
            [bundle |-> RecordBundle(sorted[at(kept[i])]), col |-> ret.data_cols[kept[i]]]]

\* the pair a range is keyed by
KeyPair(b) == <<b.green_min, b.blue_above>>

\* the positions of ms at which a group begins: the first month, and every
\* month whose pair differs from that of the month before
GroupStarts(ms) == {i \in 1..Len(ms) : i = 1 \/ KeyPair(ms[i].bundle) # KeyPair(ms[i - 1].bundle)}

\* the k-th smallest member of a set of numbers
Nth(S, k) == CHOOSE x \in S : Cardinality({y \in S : y <= x}) = k

------------------------------------------------------------------------------
(* The rating formatters of the individual sheets (SpecFormat) *)

IndividualRatingOps == {"apply_rating_scale_formatting_v2", "apply_rating_scale_formatting"}

\* the ranges the rules of the last call were added on
RuleRanges == {ret.rules[i].rng : i \in 1..Len(ret.rules)}

\* the rules of the last call on one range, in order of addition
RulesOn(rng) == SelectSeq(ret.rules, LAMBDA r : r.rng = rng)

\* the min of a rating in the thresholds the reference uses for a list
ReferenceMin(rts, rating, dflt) ==
    RatingMin(IF rts = << >> THEN DEFAULT_RATING_THRESHOLDS ELSE rts, rating, dflt)

\* the reference banding of a cell under a rating-threshold list
ReferenceBand(rts, cell) ==
    IF cell.blank THEN "white"
    ELSE IF cell.v >= ReferenceMin(rts, 5, 4500) THEN "blue"
    ELSE IF cell.v >= ReferenceMin(rts, 4, 3500) THEN "green"
    ELSE IF cell.v >= ReferenceMin(rts, 3, 2500) THEN "yellow"
    ELSE IF cell.v >= ReferenceMin(rts, 2, 1500) THEN "amber"
    ELSE "red"

\* C22: on every range they format, apply_rating_scale_formatting_v2 and
\* apply_rating_scale_formatting give every value the colour apply_rating_rules
\* gives it under the same threshold list, which is the reference banding: blue
\* from rating_5_min, green from rating_4_min, yellow from rating_3_min, amber
\* from rating_2_min, red below; no value is left without a colour.
C22_Original ==
    (ret.op \in IndividualRatingOps) =>
        \A rng \in RuleRanges : \A cell \in RatingCells :
            /\ FirstMatchFill(RulesOn(rng), cell) =
                   FirstMatchFill(apply_rating_rules(rng, ret.input), cell)
            /\ FirstMatchFill(RulesOn(rng), cell) = ReferenceBand(ret.input, cell)
------------------------------------------------------------------------------
(* Names listed twice in the config (SpecSync) *)

\* the data rows of the first table of the team
FirstTableRows(team_name) ==
    tables[TEAM_TABLES(team_name)[1]].max_row - tables[TEAM_TABLES(team_name)[1]].min_row

\* the tables of the team that have as many data rows as the first
ParallelTables(team_name) ==
    {tn \in TeamTablesPresent(team_name) :
        tables[tn].max_row - tables[tn].min_row = FirstTableRows(team_name)}

\* C23 as stated: the roster sync_team_tables works with holds each name once,
\* even when the config lists a name twice for the team: after a writing run
\* no roster name is in more than one data row of a table of the team (of
\* those with the row count of the first), and a run asks for rows to be added
\* only when the distinct names of the roster outnumber the data rows of the
\* first table.
C23_Original ==
    [][\A team_name \in SyncTeams :
          /\ (SyncStep(team_name) /\ SyncWrites(team_name)) =>
                \A tn \in ParallelTables(team_name) : \A name \in RosterNames(team_name) :
                    Cardinality({r \in (tables[tn].min_row + 1)..tables[tn].max_row :
                                    CellOf(cells', r, tables[tn].min_col) = name}) <= 1
          /\ (SyncStep(team_name) /\ TEAM_TABLES(team_name)[1] \in DOMAIN tables
              /\ Cardinality(RosterNames(team_name)) <= FirstTableRows(team_name)) =>
                (ret'.pending_change = NoPending \/ ret'.pending_change.action # "add")]_vars
------------------------------------------------------------------------------
(* Matching rows to the roster by name (SpecSync) *)

\* the config rows of the team have names that differ in more than letter
\* case and surrounding blanks
DistinctKeys(team_name) ==
    \A i, j \in {k \in 1..Len(therapists) : therapists[k].Team = team_name} :
        StripLower(therapists[i].Name) = StripLower(therapists[j].Name) => i = j

\* the data rows of the table, in the cells cs, whose name is the name but for
\* letter case and surrounding blanks
RowsKeyed(cs, t, name) ==
    {r \in (t.min_row + 1)..t.max_row :
        CellOf(cs, r, t.min_col) # NULL /\ StripLower(CellOf(cs, r, t.min_col)) = StripLower(name)}

\* C24 as stated: sync_team_tables matches the rows of a table to the roster
\* by name without regard to letter case and surrounding blanks: after a
\* writing run, a roster row whose name was a row of the table before, under
\* any spelling, has the values that row had (the name column and the
\* rightmost column aside).
C24_Original ==
    [][\A team_name \in SyncTeams :
          (SyncStep(team_name) /\ SyncWrites(team_name) /\ DistinctKeys(team_name)) =>
              \A tn \in TeamTablesPresent(team_name) :
                  \A r \in RosterRows(tables[tn], team_name) :
                      \A old \in {RowsKeyed(cells, tables[tn], CellOf(cells', r, tables[tn].min_col))} :
                          old # {} =>
                              \E q \in old :
                                  \A c \in ValueCols(tables[tn]) :
                                      CellOf(cells', r, c) = CellOf(cells, q, c)]_vars
------------------------------------------------------------------------------
(* The FTE table after a run (SpecSyncAll) *)

\* the workbook has the FTE sheet and the sheet has FTETable
FteReady == "FTE" \in DOMAIN wb /\ "FTETable" \in DOMAIN wb["FTE"].tables

ActiveTherapists == SelectSeq(therapists, LAMBDA x : x.IsActive)

\* the rank of a team in the FTE table
FteTeamRank(team) ==
    CASE team = "Physio_North" -> 1 [] team = "Physio_South" -> 2 [] team = "OT" -> 3
      [] OTHER -> 99

\* a comes no later than b by team, then leader, then competency, then name
FteNotAfter(a, b) ==
    LET ka == <<FteTeamRank(a.Team), IF a.IsTeamLeader THEN 0 ELSE 1,
                COMPETENCY_ORDER(a.Competency)>>
        kb == <<FteTeamRank(b.Team), IF b.IsTeamLeader THEN 0 ELSE 1,
                COMPETENCY_ORDER(b.Competency)>>
    IN  \/ ka[1] < kb[1]
        \/ ka[1] = kb[1] /\ ka[2] < kb[2]
        \/ ka[1] = kb[1] /\ ka[2] = kb[2] /\ ka[3] < kb[3]
        \/ ka = kb /\ ~SeqLess(Chars(b.Name), Chars(a.Name))

\* the sequence s is an arrangement of the sequence u
ArrangementOf(s, u) ==
    /\ Len(s) = Len(u)
    /\ \A x \in {u[i] : i \in 1..Len(u)} :
          Cardinality({i \in 1..Len(s) : s[i] = x}) = Cardinality({i \in 1..Len(u) : u[i] = x})

\* the active therapists in the order of the FTE table
FteOrdered(s) ==
    /\ ArrangementOf(s, ActiveTherapists)
    /\ \A i \in 1..(Len(s) - 1) : FteNotAfter(s[i], s[i + 1])

------------------------------------------------------------------------------
(* SpecEmail: send_consolidated_email at every weekday and hour of the clock *)

\* datetime.now().weekday() and datetime.now().hour
Weekdays == 0..6

DayHours == 0..23

\* the lists of pending changes a run can hand over
PendingLists ==
    {<< >>,
     <<PendingChange("OT", "add", 1)>>,
     <<PendingChange("Physio_North", "delete", 1), PendingChange("OT", "add", 2)>>}

SendConsolidatedEmail ==
    \E pending_changes \in PendingLists, token \in BOOLEAN, day_of_week \in Weekdays,
       hour \in DayHours, accepted \in BOOLEAN :
        /\ ret' = [op |-> "send_consolidated_email", pending_changes |-> pending_changes,
                   token |-> token, day_of_week |-> day_of_week, hour |-> hour,
                   attempted |-> send_email_attempted(pending_changes, token, day_of_week, hour),
                   result |-> send_consolidated_email(pending_changes, token, day_of_week,
                                                      hour, accepted)]
        /\ UNCHANGED <<cacheVars, configVars, sheetVars, cf, wb>>

InitEmail ==
    /\ InitCache
    /\ therapists = << >>
    /\ competency_history = << >>
    /\ team_ave_thresholds = << >>
    /\ thresholds = [c \in {"Grad", "CA", "Senior"} |-> Bundle(3500, 4000, 6000, 6000)]
    /\ ceased_thresholds = LoadedCeasedDefaults
    /\ rating_thresholds = LoadedRatingDefaults
    /\ cells = << >>
    /\ styles = NoStyles
    /\ tables = << >>
    /\ cf = << >>
    /\ wb = << >>
    /\ ret = [op |-> "none"]

NextEmail == SendConsolidatedEmail

SpecEmail == InitEmail /\ [][NextEmail]_vars

------------------------------------------------------------------------------
(* The notification gate (SpecEmail) *)

\* C26 as stated: a send is attempted only when the list of pending changes is
\* not empty, a token is supplied and the clock shows a Monday or a Thursday
\* with the hour from 9 to 11; at every other time, the 12 o'clock hour
\* included, nothing is attempted and the call returns False.
C26_Original ==
    ret.op = "send_consolidated_email" =>
        /\ ret.attempted =>
              /\ ret.pending_changes # << >>
              /\ ret.token
              /\ ret.day_of_week \in {0, 3}
              /\ 9 <= ret.hour /\ ret.hour <= 11
        /\ ~(ret.day_of_week \in {0, 3} /\ 9 <= ret.hour /\ ret.hour <= 11) =>
              ~ret.attempted /\ ~ret.result
------------------------------------------------------------------------------
(* The path cache of function_app.py *)

\* timedelta(hours=24)
CACHE_HOURS == 24

\* a variant of the window that never ends once it has started
resolve_file_path_NoExpiry(file_path, response) ==
    IF cache_expiry # NoExpiry /\ file_path \in DOMAIN file_id_cache
    THEN [file_id_cache |-> file_id_cache, cache_expiry |-> cache_expiry,
          requested |-> FALSE, result |-> file_id_cache[file_path]]
    ELSE [file_id_cache |-> IF response.status_code < 400
                            THEN (file_path :> response.id) @@ file_id_cache
                            ELSE file_id_cache,
          cache_expiry  |-> IF cache_expiry = NoExpiry THEN utcnow + CACHE_HOURS
                            ELSE cache_expiry,
          requested     |-> TRUE,
          result        |-> IF response.status_code = 404 THEN NULL
                            ELSE IF response.status_code >= 400 THEN "Exception"
                            ELSE response.id]

\* function_app.resolve_file_path(file_path, token) at the time utcnow, where
\* response is what graph_request answers when it is asked: the cache and the
\* expiry the call leaves, whether the request was made, and the id returned
\* (NULL for None, "Exception" when the call raises)
resolve_file_path(file_path, response) ==
    IF cache_expiry # NoExpiry /\ utcnow < cache_expiry /\ file_path \in DOMAIN file_id_cache
    THEN [file_id_cache |-> file_id_cache, cache_expiry |-> cache_expiry,
          requested |-> FALSE, result |-> file_id_cache[file_path]]
    ELSE
    LET expired == cache_expiry = NoExpiry \/ utcnow >= cache_expiry
        cache   == IF expired THEN << >> ELSE file_id_cache
        expiry  == IF expired THEN utcnow + CACHE_HOURS ELSE cache_expiry
    IN  IF response.status_code = 404
        THEN [file_id_cache |-> cache, cache_expiry |-> expiry, requested |-> TRUE,
              result |-> NULL]
        ELSE IF response.status_code >= 400
        THEN [file_id_cache |-> cache, cache_expiry |-> expiry, requested |-> TRUE,
              result |-> "Exception"]
        ELSE [file_id_cache |-> (file_path :> response.id) @@ cache,
              cache_expiry |-> expiry, requested |-> TRUE, result |-> response.id]

------------------------------------------------------------------------------
(* SpecCache: calls of resolve_file_path as the clock runs *)

\* the clock stops here
MaxClock == 30

\* the hours that pass between two calls
ClockSteps == {1, 12, 24}

FilePaths == {"/KPI/al.xlsx", "/KPI/bo & co.xlsx"}

\* what the Graph API can answer for a path: the item with its id, 404, or
\* another error status
Responses ==
    {[status_code |-> 200, id |-> "id1"], [status_code |-> 200, id |-> "id2"],
     [status_code |-> 404, id |-> NULL], [status_code |-> 500, id |-> NULL]}

ResolveFilePath ==
    \E file_path \in FilePaths, response \in Responses :
        \E out \in {resolve_file_path(file_path, response)} :
            /\ file_id_cache' = out.file_id_cache
            /\ cache_expiry' = out.cache_expiry
            /\ ret' = [op |-> "resolve_file_path", file_path |-> file_path,
                       status_code |-> IF out.requested THEN response.status_code ELSE 0,
                       requested |-> out.requested, result |-> out.result]
            /\ UNCHANGED <<configVars, sheetVars, cf, wb, utcnow>>

\* time passes
ClockTick ==
    \E d \in ClockSteps :
        /\ utcnow + d <= MaxClock
        /\ utcnow' = utcnow + d
        /\ UNCHANGED <<configVars, sheetVars, cf, wb, file_id_cache, cache_expiry, ret>>

InitPathCache ==
    /\ InitCache
    /\ therapists = << >>
    /\ competency_history = << >>
    /\ team_ave_thresholds = << >>
    /\ thresholds = [c \in {"Grad", "CA", "Senior"} |-> Bundle(3500, 4000, 6000, 6000)]
    /\ ceased_thresholds = LoadedCeasedDefaults
    /\ rating_thresholds = LoadedRatingDefaults
    /\ cells = << >>
    /\ styles = NoStyles
    /\ tables = << >>
    /\ cf = << >>
    /\ wb = << >>
    /\ ret = [op |-> "none"]

NextCache == ResolveFilePath \/ ClockTick

SpecCache == InitPathCache /\ [][NextCache]_vars

------------------------------------------------------------------------------
(* The validity of cached ids (SpecCache) *)

\* the window of the cache is open: an expiry is set and not yet reached
WindowOpen == cache_expiry # NoExpiry /\ utcnow < cache_expiry

\* C27: a call (a step on which the clock stands still) returns an id without
\* a request only when the window is open and the id is in the cache, and
\* then changes nothing; a call with no open window asks the remote store,
\* drops every earlier entry and sets the expiry 24 hours ahead; a call that
\* asks inside the window keeps the expiry and the other entries; an entry is
\* stored for the path exactly when the answer carries an id, never for a 404
\* (None) or an error.  So every entry was stored in the window that is
\* running, and the path of a failed call is not in the cache afterwards.
C27_CacheWindow ==
    /\ [][utcnow' = utcnow =>
            LET p == ret'.file_path IN
            /\ ~ret'.requested =>
                  /\ WindowOpen
                  /\ p \in DOMAIN file_id_cache
                  /\ ret'.result = file_id_cache[p]
                  /\ file_id_cache' = file_id_cache
                  /\ cache_expiry' = cache_expiry
            /\ ~WindowOpen =>
                  /\ ret'.requested
                  /\ cache_expiry' = utcnow + 24
                  /\ DOMAIN file_id_cache' \subseteq {p}
            /\ (WindowOpen /\ ret'.requested) =>
                  /\ cache_expiry' = cache_expiry
                  /\ p \notin DOMAIN file_id_cache
                  /\ DOMAIN file_id_cache' \ {p} = DOMAIN file_id_cache
                  /\ \A q \in DOMAIN file_id_cache : file_id_cache'[q] = file_id_cache[q]
            /\ ret'.requested =>
                  /\ (p \in DOMAIN file_id_cache') = (ret'.status_code = 200)
                  /\ ret'.status_code = 200 => file_id_cache'[p] = ret'.result
                  /\ ret'.status_code = 404 => ret'.result = NULL
                  /\ ret'.status_code = 500 => ret'.result = "Exception"]_vars
    /\ [](/\ file_id_cache # << >> => cache_expiry # NoExpiry
          /\ cache_expiry # NoExpiry => cache_expiry <= utcnow + 24
          /\ (ret.op = "resolve_file_path" /\ ret.result \in {NULL, "Exception"})
                => ret.file_path \notin DOMAIN file_id_cache)

\* an id has come out of the cache in a window that started after the first
\* one had run out, while the other path's last entry is gone
C27_Witness ==
    /\ ret.op = "resolve_file_path"
    /\ ~ret.requested
    /\ cache_expiry > 2 * CACHE_HOURS
    /\ DOMAIN file_id_cache = {ret.file_path}
------------------------------------------------------------------------------
(* SpecPasses: formatting passes run again and again on the same sheet *)

\* format_team_leader_sheet on the OT sheet of the Team Leader workbook
TeamLeaderPass ==
    /\ tables # << >>
    /\ \E yr \in {WorkbookYear, NoYear} : FormatTeamLeaderSheet(yr)

\* update_individual_sheet_v2 on the Dashboard sheet of a therapist's file
IndividualPass ==
    /\ tables = << >>
    /\ UpdateIndividualSheetV2

\* the largest number of history rows of a config whose sheet is formatted
\* again
MaxPassRecs == 2

\* the Team Leader workbook with a loaded config of up to MaxPassRecs history
\* rows
InitTeamLeaderPasses ==
    /\ InitCache
    /\ InitStaticConfig
    /\ InitOTSheet
    /\ \/ /\ competency_history \in SeqsUpTo(CompetencyRows, MaxPassRecs)
          /\ team_ave_thresholds = << >>
       \/ /\ competency_history = << >>
          /\ team_ave_thresholds \in SeqsUpTo(TeamRows, MaxPassRecs)
    /\ ret = [op |-> "none"]

InitPasses == InitTeamLeaderPasses \/ InitIndividual

NextPasses == TeamLeaderPass \/ IndividualPass

SpecPasses == InitPasses /\ [][NextPasses]_vars

------------------------------------------------------------------------------
(* Passes do not accumulate rules (SpecPasses) *)

\* the rules a single pass of format_team_leader_sheet leaves on a sheet that
\* had none
SinglePassRules(yr) ==
    FormatTables(OT_SHEET_CONFIG, OT_SHEET_CONFIG.tables, yr,
                 [rules |-> << >>, tables_formatted |-> 0, rows_formatted |-> 0]).rules

\* C28: however many passes have run before, a pass of
\* format_team_leader_sheet leaves exactly the rules of a single pass, a pass
\* that follows one of the same year leaves the rule list as it found it, and
\* an update of an individual sheet that gets as far as the formatting leaves
\* exactly the rules of a single update; an update that stops early leaves
\* the rules alone.
C28_PassesDoNotAccumulate ==
    [][/\ ret'.op = "format_team_leader_sheet" =>
             /\ cf' = SinglePassRules(ret'.year)
             /\ (ret.op = "format_team_leader_sheet" /\ ret.year = ret'.year) => cf' = cf
       /\ ret'.op = "update_individual_sheet_v2" =>
             /\ ret'.result =>
                   cf' = IndividualRules(ret'.therapist.Name,
                                         IF ret'.therapist.Team = "OT" THEN "OT" ELSE "Physio",
                                         ret'.year)
             /\ (ret.op = "update_individual_sheet_v2" /\ ret.year = ret'.year
                   /\ ret.result /\ ret'.result) => cf' = cf
             /\ ~ret'.result => cf' = cf]_vars

\* a pass of format_team_leader_sheet has run on a sheet that carried the
\* rules of an earlier pass, and the sheet has the rules of one pass
C28_Witness ==
    /\ ret.op = "format_team_leader_sheet"
    /\ ret.old_count > 0
    /\ cf # << >>
    /\ Len(cf) = ret.old_count
------------------------------------------------------------------------------
(* Tables of unequal length (SpecSync) *)

\* the cell is inside the declared range of the table
InsideTable(x, t) ==
    /\ t.min_row <= x[1] /\ x[1] <= t.max_row
    /\ t.min_col <= x[2] /\ x[2] <= t.max_col

\* the cells whose value or style the step has written anew
ChangedCells ==
    {x \in DOMAIN cells' : x \notin DOMAIN cells \/ cells'[x] # cells[x]}
        \cup {x \in DOMAIN styles' : x \notin DOMAIN styles \/ styles'[x] # styles[x]}

\* the data rows of the table, in the cells cs, that carry a name the roster
\* of the team does not have under any spelling
StrangerRows(cs, t, team_name) ==
    {r \in (t.min_row + 1)..t.max_row :
        /\ CellOf(cs, r, t.min_col) # NULL
        /\ \A name \in RosterNames(team_name) :
              StripLower(CellOf(cs, r, t.min_col)) # StripLower(name)}

\* C29 as stated: a run of sync_team_tables changes values and styles only
\* inside the declared range of one of the team's tables, and a writing run
\* that returns no pending change leaves no table of the team with a name in
\* a data row that is not on the roster, whatever the row counts of the later
\* tables.
C29_Original ==
    [][\A team_name \in SyncTeams :
          SyncStep(team_name) =>
              /\ \A x \in ChangedCells :
                    \E tn \in TeamTablesPresent(team_name) : InsideTable(x, tables[tn])
              /\ (SyncWrites(team_name) /\ ret'.pending_change = NoPending) =>
                    \A tn \in TeamTablesPresent(team_name) :
                        StrangerRows(cells', tables[tn], team_name) = {}]_vars
------------------------------------------------------------------------------
(* The point lookup: get_competency_for_month of individual_sheet_v2.py and *)
(* function_app.py                                                         *)

\* list.sort(key=EffectiveDate, reverse=True): stable insertion of r behind
\* every record whose date is not earlier
RECURSIVE InsertByDateDesc(_, _)
InsertByDateDesc(r, sorted) ==
    IF sorted = << >> THEN <<r>>
    ELSE IF Head(sorted).EffectiveDate >= r.EffectiveDate
         THEN <<Head(sorted)>> \o InsertByDateDesc(r, Tail(sorted))
         ELSE <<r>> \o sorted

RECURSIVE SortByDateDesc(_)
SortByDateDesc(recs) ==
    IF recs = << >> THEN << >>
    ELSE InsertByDateDesc(recs[Len(recs)], SortByDateDesc(SubSeq(recs, 1, Len(recs) - 1)))

\* get_competency_for_month(therapist_name, month_name, year, config): the
\* competency of the first record, latest date first, that is dated on or
\* before the 15th of the month, else the competency of the therapist in the
\* config; "TypeError" when the sort compares a date with None
get_competency_for_month(therapist_name, month_name, yr, history) ==
    IF MONTH_TO_NUM(month_name) = 0 THEN NULL
    ELSE
    LET target_date == Date(yr, MONTH_TO_NUM(month_name), 15)
        therapist_records ==
            SelectSeq(history, LAMBDA r : StripLower(r.Name) = StripLower(therapist_name))
        sorted == SortByDateDesc(therapist_records)
        hits   == {i \in 1..Len(sorted) :
                     sorted[i].EffectiveDate # NoDate /\ sorted[i].EffectiveDate <= target_date}
    IN  IF Len(therapist_records) >= 2
           /\ \E i \in 1..Len(therapist_records) : therapist_records[i].EffectiveDate = NoDate
        THEN "TypeError"
        ELSE IF hits # {} THEN sorted[Min(hits)].Competency
        ELSE current_comp(therapist_name)

------------------------------------------------------------------------------
(* The resolvers and the point lookup (SpecResolve) *)

\* the months whose column the last call's header has and that have a history
\* row of the subject dated on or before their 15th
DatedMonths ==
    {m \in DOMAIN ret.data_cols \ {"Average"} :
        \E i \in SubjectRows :
            competency_history[i].EffectiveDate <= Date(ret.year, MONTH_TO_NUM(m), 15)}

\* every history row with the subject's name carries a date, as in a history
\* that function_app.load_config loaded
SubjectRowsDated ==
    \A i \in 1..Len(competency_history) :
        NameMatches(competency_history[i].Name, ret.subject) => i \in SubjectRows

\* C30 as stated: when a call of a therapist resolver returns ranges, the
\* competency of the range that contains the column of a month with a history
\* row on or before its 15th is what get_competency_for_month returns for the
\* therapist, the month and the year, rows of one date included.
C30_Original ==
    (ret.op \in TherapistResolverOps /\ ret.ranges # NoRanges /\ SubjectRowsDated) =>
        \A m \in DatedMonths :
            \A i \in 1..Len(ret.ranges) :
                (ret.ranges[i][2] <= ret.data_cols[m] /\ ret.data_cols[m] <= ret.ranges[i][3]) =>
                    ret.ranges[i][1] = get_competency_for_month(ret.subject, m, ret.year,
                                                                competency_history)

====
